---- MODULE Spec2Model ----
(***************************************************************************)
(* GovernanceCore (src/src/server.ts): the orchestration of the policy,    *)
(* cost, analytics, configuration, schema and dashboard adapters, and the  *)
(* request handlers in front of it (src/src/handlers/index.ts).            *)
(*                                                                         *)
(* Every invocation of a public operation runs in its own frame.  A frame  *)
(* advances at the points where the code awaits an adapter: an action is   *)
(* the synchronous run of the code from one await to the next.  The        *)
(* adapters are the environment: what they return, or whether they reject, *)
(* is chosen when the call returns.  Each frame keeps the history of the   *)
(* adapter calls it issued and of their returns (trace).  The instance     *)
(* itself holds one field, the adapter collection it was constructed with  *)
(* (adapters).                                                             *)
(*                                                                         *)
(* JavaScript values: an optional value is a sequence of length 0          *)
(* (undefined) or 1; an absent or empty string is Undefined or "", both    *)
(* falsy; a number formatted into a template literal is ToString(n).       *)
(***************************************************************************)
EXTENDS Integers, Sequences, FiniteSets, TLC

VARIABLES now, frames, script, adapters

vars == <<now, frames, script, adapters>>

\* The wall clock is read as a value in 0..MaxClock that never decreases.
MaxClock == 1

\* The two invocation slots; Solo is the slot of the single-caller
\* specification.
Calls == {"c1", "c2"}
Solo == {"c1"}

----------------------------------------------------------------------------
(* JavaScript values *)

None == <<>>
Some(x) == <<x>>
IsSome(o) == Len(o) = 1
Get(o) == o[1]

Undefined == "<undefined>"

\* x || d for an optional string x
OrDefault(x, d) == IF x = Undefined \/ x = "" THEN d ELSE x

RECURSIVE Join(_, _)
\* Array.prototype.join
Join(strs, sep) ==
  IF Len(strs) = 0 THEN ""
  ELSE IF Len(strs) = 1 THEN strs[1]
  ELSE strs[1] \o sep \o Join(Tail(strs), sep)

\* errors.map(e => e.message)
Messages(errors) == [i \in 1..Len(errors) |-> errors[i].message]

\* A thrown value: an Error with a message, or something that is no Error.
ErrorOf(msg) == [isError |-> TRUE, message |-> msg]
NonError == [isError |-> FALSE, message |-> Undefined]

\* error instanceof Error ? error.message : 'Unknown error'
CauseOf(thrown) == IF thrown.isError THEN thrown.message ELSE "Unknown error"

\* catch (error) { throw new Error(`<prefix>: ${...}`) }
Wrap(prefix, thrown) == ErrorOf(prefix \o ": " \o CauseOf(thrown))

\* AdapterResponse<T>
Response(success, data, error) ==
  [success |-> success, data |-> data, error |-> error]

\* The AdapterCollection a GovernanceCore is constructed with: for each
\* adapter, the methods of it that the program calls
AdapterCollection ==
  [costOps |-> {"getCostMetrics", "getForecast"},
   dashboard |-> {"publishEvent"},
   policyEngine |-> {"evaluatePolicy"},
   analyticsHub |-> {"track", "query"},
   configManager |-> {"getConfig"},
   schemaRegistry |-> {"validate"}]

\* How an adapter call ends: the promise it returns resolves with a response
\* or rejects with a thrown value, or the call throws before it returns a
\* promise.  For a call that is awaited alone the last two are handled
\* alike and Reject stands for both; they differ for the two calls handed to
\* Promise.all.
Resolve(resp) == [kind |-> "resolve", value |-> resp]
Reject(thrown) == [kind |-> "reject", thrown |-> thrown]
Throws(thrown) == [kind |-> "throw", thrown |-> thrown]

\* The call returns a promise.
NoThrow == [kind |-> "none"]

\* What a call may do at once: throw (if `outcomes` has it), or not
SyncChoices(outcomes) == {o \in outcomes : o.kind = "throw"} \cup {NoThrow}

\* How a returned promise may settle
Settlements(outcomes) == {o \in outcomes : o.kind # "throw"}

----------------------------------------------------------------------------
(* Inputs and adapter behaviours *)

Requests ==
  { [requestId |-> "req-1", resourceId |-> "res-1", action |-> "read",
     principal |-> "alice", context |-> Some({<<"env", "prod">>})],
    [requestId |-> "req-2", resourceId |-> "res-2", action |-> "delete",
     principal |-> "bob", context |-> None] }

PolicyAllow ==
  [allowed |-> TRUE, reasons |-> <<"Read access granted">>,
   appliedPolicies |-> <<"policy-1", "policy-2">>]
PolicyDeny ==
  [allowed |-> FALSE, reasons |-> <<"Delete forbidden", "No override">>,
   appliedPolicies |-> <<"policy-2">>]

PolicyOutcomes ==
  { Resolve(Response(TRUE, Some(PolicyAllow), Undefined)),
    Resolve(Response(TRUE, Some(PolicyDeny), Undefined)),
    Resolve(Response(FALSE, None, "policy engine down")),
    Resolve(Response(FALSE, None, Undefined)),
    Resolve(Response(TRUE, None, Undefined)),
    Resolve(Response(FALSE, Some(PolicyAllow), "stale policy")),
    Reject(ErrorOf("policy timeout")),
    Reject(NonError) }


Ok == Resolve(Response(TRUE, None, Undefined))

\* CostMetrics and CostForecast payloads (amounts in whole currency units)
Metrics(total) == [totalCost |-> total, currency |-> "USD"]
Forecast(projected) == [projectedCost |-> projected]

MetricsOutcomes ==
  { Resolve(Response(TRUE, Some(Metrics(100)), Undefined)),
    Resolve(Response(TRUE, Some(Metrics(0)), Undefined)),
    Resolve(Response(FALSE, None, "cost service down")),
    Resolve(Response(FALSE, Some(Metrics(100)), "stale metrics")),
    Resolve(Response(TRUE, None, Undefined)),
    Reject(ErrorOf("metrics timeout")),
    Throws(ErrorOf("metrics adapter not configured")) }

ForecastOutcomes ==
  { Resolve(Response(TRUE, Some(Forecast(125)), Undefined)),
    Resolve(Response(TRUE, Some(Forecast(110)), Undefined)),
    Resolve(Response(TRUE, Some(Forecast(120)), Undefined)),
    Resolve(Response(TRUE, Some(Forecast(150)), Undefined)),
    Resolve(Response(TRUE, Some(Forecast(160)), Undefined)),
    Resolve(Response(TRUE, Some(Forecast(0)), Undefined)),
    Resolve(Response(FALSE, None, Undefined)),
    Resolve(Response(TRUE, None, Undefined)),
    Reject(ErrorOf("forecast timeout")),
    Throws(ErrorOf("forecast adapter not configured")) }

TrackOutcomes ==
  { Ok,
    Resolve(Response(FALSE, None, "analytics down")),
    Reject(ErrorOf("analytics timeout")) }

Valid == [valid |-> TRUE, errors |-> <<>>]
Invalid ==
  [valid |-> FALSE,
   errors |-> << [path |-> "/outcome", message |-> "bad outcome"],
                 [path |-> "/principal", message |-> "unknown principal"] >>]

ValidateOutcomes ==
  { Resolve(Response(TRUE, Some(Valid), Undefined)),
    Resolve(Response(TRUE, Some(Invalid), Undefined)),
    Resolve(Response(FALSE, None, "registry down")),
    Resolve(Response(TRUE, None, Undefined)),
    Resolve(Response(FALSE, Some(Valid), "registry degraded")),
    Reject(ErrorOf("registry timeout")) }

PublishOutcomes ==
  { Ok,
    Resolve(Response(FALSE, None, "dashboard down")),
    Reject(ErrorOf("dashboard timeout")) }

\* ConfigValue payloads: the value is null, or an object that may have a
\* roles list and a permissions list.
NullValue == [isNull |-> TRUE, roles |-> None, permissions |-> None]
ObjectValue(roles, permissions) ==
  [isNull |-> FALSE, roles |-> roles, permissions |-> permissions]
ConfigValue(value) == [value |-> value, version |-> "v1"]
RolesConfig(roles) == ConfigValue(ObjectValue(Some(roles), None))
PermissionsConfig(permissions) ==
  ConfigValue(ObjectValue(None, Some(permissions)))

Principals == {"alice", "mallory"}

RolesOutcomes ==
  { Resolve(Response(TRUE, Some(RolesConfig(<<"admin", "developer">>)),
                     Undefined)),
    Resolve(Response(TRUE, Some(RolesConfig(<<"viewer", "viewer">>)),
                     Undefined)),
    Resolve(Response(TRUE,
                     Some(RolesConfig(<<"admin", "developer", "viewer">>)),
                     Undefined)),
    Resolve(Response(TRUE, Some(RolesConfig(<<>>)), Undefined)),
    Resolve(Response(TRUE, Some(ConfigValue(ObjectValue(None, None))),
                     Undefined)),
    Resolve(Response(TRUE, Some(ConfigValue(NullValue)), Undefined)),
    Resolve(Response(FALSE, None, "config service down")),
    Resolve(Response(TRUE, None, Undefined)),
    Resolve(Response(FALSE, Some(RolesConfig(<<"admin">>)), "stale config")),
    Reject(ErrorOf("config timeout")) }

PermissionsOutcomes ==
  { Resolve(Response(TRUE,
                     Some(PermissionsConfig(<<"read", "write", "delete">>)),
                     Undefined)),
    Resolve(Response(TRUE, Some(PermissionsConfig(<<"read", "write">>)),
                     Undefined)),
    Resolve(Response(TRUE, Some(PermissionsConfig(<<"deploy", "read">>)),
                     Undefined)),
    Resolve(Response(TRUE, Some(ConfigValue(ObjectValue(None, None))),
                     Undefined)),
    Resolve(Response(FALSE, None, "config service down")),
    Resolve(Response(TRUE, None, Undefined)),
    Resolve(Response(FALSE, Some(PermissionsConfig(<<"admin:all">>)),
                     "stale config")),
    Reject(ErrorOf("permissions timeout")) }

\* What each adapter will answer to one invocation of evaluateGovernance,
\* fixed in advance, with the request of that invocation.
Scripts ==
  [request : Requests,
   policy : { Resolve(Response(TRUE, Some(PolicyAllow), Undefined)),
              Resolve(Response(TRUE, Some(PolicyDeny), Undefined)) },
   metrics : { Resolve(Response(TRUE, Some(Metrics(100)), Undefined)),
               Reject(ErrorOf("metrics timeout")) },
   forecast : { Resolve(Response(TRUE, Some(Forecast(125)), Undefined)),
                Resolve(Response(TRUE, None, Undefined)) },
   track : TrackOutcomes,
   validate : { Resolve(Response(TRUE, Some(Valid), Undefined)),
                Resolve(Response(TRUE, Some(Invalid), Undefined)) },
   publish : { Ok, Resolve(Response(FALSE, None, "dashboard down")) }]

RoleNames == {"admin", "developer", "viewer"}

\* What the configuration adapter will answer for each key, fixed in
\* advance, with the principal to resolve.
ConfigScripts ==
  [principal : {"alice"},
   roles : { Resolve(Response(TRUE, Some(RolesConfig(<<"admin", "developer">>)),
                              Undefined)),
             Resolve(Response(TRUE, Some(RolesConfig(<<"viewer", "viewer">>)),
                              Undefined)),
             Resolve(Response(TRUE,
                              Some(RolesConfig(<<"admin", "developer",
                                                 "viewer">>)),
                              Undefined)) },
   permissions :
     [RoleNames ->
        { Resolve(Response(TRUE,
                           Some(PermissionsConfig(<<"read", "write",
                                                    "delete">>)),
                           Undefined)),
          Resolve(Response(TRUE, Some(PermissionsConfig(<<"deploy", "read">>)),
                           Undefined)),
          Resolve(Response(FALSE, None, "config service down")),
          Reject(ErrorOf("permissions timeout")) }]]

\* An invocation without a script takes any answer; one with a script takes
\* the scripted answer.
Scripted(c, adapter, outcome) ==
  IsSome(script[c]) => outcome = Get(script[c])[adapter]
ScriptedLookup(c, role, outcome) ==
  IsSome(script[c]) => outcome = Get(script[c]).permissions[role]
ScriptedSync(c, adapter, choice) ==
  IsSome(script[c]) =>
    choice = IF Get(script[c])[adapter].kind = "throw"
             THEN Get(script[c])[adapter] ELSE NoThrow

----------------------------------------------------------------------------
(* Dates *)

Pad3(n) ==
  IF n < 10 THEN "00" \o ToString(n)
  ELSE IF n < 100 THEN "0" \o ToString(n)
  ELSE ToString(n)

\* Date.prototype.toISOString for an epoch time below one second
toISOString(ms) == "1970-01-01T00:00:00." \o Pad3(ms) \o "Z"

\* The time value of an invalid Date (NaN)
InvalidDate == -1

\* new Date(string): the epoch time, or an invalid Date
DateParse(str) ==
  IF \E ms \in 0..MaxClock : toISOString(ms) = str
  THEN CHOOSE ms \in 0..MaxClock : toISOString(ms) = str
  ELSE InvalidDate

\* getForecast({ horizon: 30, ... })
ForecastHorizon == 30

----------------------------------------------------------------------------
(* Frames *)

IdleFrame ==
  [op |-> "idle", pc |-> "idle", input |-> None, resourceId |-> Undefined,
   policyResults |-> None, costImpact |-> None, auditId |-> Undefined,
   signal |-> None, metricsResponse |-> None, forecastResponse |-> None,
   roles |-> <<>>, permissionSets |-> <<>>,
   via |-> Undefined, raw |-> None, delegated |-> <<>>,
   inflight |-> {}, trace |-> <<>>, result |-> None]

CallEvent(adapter, arg) == [kind |-> "call", op |-> adapter, arg |-> arg]
ReturnEvent(adapter, outcome) ==
  [kind |-> "return", op |-> adapter, outcome |-> outcome]
ClockEvent(ms) == [kind |-> "clock", op |-> "Date.now", value |-> ms]

\* The frame after it issues a call to an adapter and awaits it at `pc`.
Issue(s, adapter, arg, pc) ==
  [s EXCEPT !.trace = Append(@, CallEvent(adapter, arg)),
            !.inflight = @ \cup {adapter},
            !.pc = pc]

\* The frame after an adapter call has come back.
Returned(s, adapter, outcome) ==
  [s EXCEPT !.trace = Append(@, ReturnEvent(adapter, outcome)),
            !.inflight = @ \ {adapter}]

\* The operation returns `value` to its caller.
Return(s, value) == [s EXCEPT !.pc = "done", !.result = Some(value)]

\* The operation throws `thrown` to its caller.
Throw(s, thrown) ==
  [s EXCEPT !.pc = "done",
            !.result = Some([kind |-> "error", message |-> thrown.message])]

----------------------------------------------------------------------------
(* emitAuditSignal, src/src/server.ts 245-265 *)

\* Mutant: every audit event is published as "info".
Severity_AlwaysInfo(signal) == "info"

\* Mutant: every outcome but "allowed" is published as a warning.
Severity_InfoOnlyIfAllowed(signal) ==
  IF signal.outcome = "allowed" THEN "info" ELSE "warning"

\* signal.outcome === 'denied' ? 'warning' : 'info'
Severity(signal) == IF signal.outcome = "denied" THEN "warning" ELSE "info"

\* The GovernanceEvent handed to dashboard.publishEvent
AuditEvent(signal) ==
  [eventType |-> "audit.signal",
   severity |-> Severity(signal),
   timestamp |-> DateParse(signal.timestamp),
   details |-> signal]

\* Mutant: the valid flag of the validation result is not looked at.
ValidationFailed_SuccessOnly(resp) == ~resp.success

\* !validationResponse.success || !validationResponse.data?.valid
ValidationFailed(resp) ==
  ~resp.success \/ ~(IsSome(resp.data) /\ Get(resp.data).valid)

\* The Error thrown when validation fails
ValidationError(resp) ==
  LET errors == IF IsSome(resp.data) THEN Get(resp.data).errors ELSE <<>>
  IN ErrorOf("Audit signal validation failed: "
             \o Join(Messages(errors), ", "))

\* Mutant: evaluateGovernance swallows a failed audit emission.
EmitThrows_Swallowed(s, thrown) ==
  LET wrapped == Wrap("Audit signal emission failed", thrown)
  IN IF s.op = "emitAuditSignal"
     THEN Throw(s, wrapped)
     ELSE Return(s, [kind |-> "decision",
                     requestId |-> Get(s.input).requestId,
                     allowed |-> Get(s.policyResults).allowed,
                     policyResults |-> Get(s.policyResults),
                     costImpact |-> s.costImpact,
                     auditId |-> s.auditId])

\* Mutant: the catch of emitAuditSignal throws the error on as it caught it.
EmitThrows_Rethrown(s, thrown) ==
  IF s.op = "emitAuditSignal"
  THEN Throw(s, thrown)
  ELSE Throw(s, Wrap("Governance evaluation failed", thrown))

\* The catch of emitAuditSignal, and around it the catch of
\* evaluateGovernance when that is the caller.
EmitThrows(s, thrown) ==
  LET wrapped == Wrap("Audit signal emission failed", thrown)
  IN IF s.op = "emitAuditSignal"
     THEN Throw(s, wrapped)
     ELSE Throw(s, Wrap("Governance evaluation failed", wrapped))

\* Mutant: a request without cost data is denied.
Decision_CostVeto(s) ==
  [kind |-> "decision",
   requestId |-> Get(s.input).requestId,
   allowed |-> Get(s.policyResults).allowed /\ IsSome(s.costImpact),
   policyResults |-> Get(s.policyResults),
   costImpact |-> s.costImpact,
   auditId |-> s.auditId]

\* The GovernanceDecision of evaluateGovernance
Decision(s) ==
  [kind |-> "decision",
   requestId |-> Get(s.input).requestId,
   allowed |-> Get(s.policyResults).allowed,
   policyResults |-> Get(s.policyResults),
   costImpact |-> s.costImpact,
   auditId |-> s.auditId]

\* emitAuditSignal returns; evaluateGovernance, when it is the caller,
\* returns the decision.
EmitReturns(s) ==
  IF s.op = "emitAuditSignal"
  THEN Return(s, [kind |-> "void"])
  ELSE Return(s, Decision(s))

\* The call of emitAuditSignal up to its first await
EmitBegin(s, signal) ==
  Issue([s EXCEPT !.signal = Some(signal)], "validate",
        [schemaId |-> "audit.signal.v1", data |-> signal], "awaitValidate")

\* From the return of schemaRegistry.validate to the next await
AfterValidate(s, outcome) ==
  LET s1 == Returned(s, "validate", outcome)
  IN IF outcome.kind = "reject" THEN EmitThrows(s1, outcome.thrown)
     ELSE IF ValidationFailed(outcome.value)
          THEN EmitThrows(s1, ValidationError(outcome.value))
     ELSE Issue(s1, "publishEvent", AuditEvent(Get(s1.signal)), "awaitPublish")

\* Mutant: a rejected publishEvent is tried once more.
AfterPublish_RetryOnce(s, outcome) ==
  LET s1 == Returned(s, "publishEvent", outcome)
      tries == {i \in 1..Len(s.trace) : s.trace[i].kind = "call"
                                        /\ s.trace[i].op = "publishEvent"}
  IN IF outcome.kind = "reject" /\ Cardinality(tries) = 1
     THEN Issue(s1, "publishEvent", AuditEvent(Get(s1.signal)), "awaitPublish")
     ELSE IF outcome.kind = "reject" THEN EmitThrows(s1, outcome.thrown)
     ELSE EmitReturns(s1)

\* From the return of dashboard.publishEvent to the end
AfterPublish(s, outcome) ==
  LET s1 == Returned(s, "publishEvent", outcome)
  IN IF outcome.kind = "reject" THEN EmitThrows(s1, outcome.thrown)
     ELSE EmitReturns(s1)

----------------------------------------------------------------------------
(* evaluateGovernance, src/src/server.ts 74-150 *)

\* Mutant: the audit id carries no timestamp.
AuditId_NoTimestamp(request, ms) == "audit-" \o request.requestId

\* Mutant: the audit id carries no request id.
AuditId_NoRequestId(request, ms) == "audit-" \o ToString(ms)

\* `audit-${request.requestId}-${Date.now()}`
AuditId(request, ms) == "audit-" \o request.requestId \o "-" \o ToString(ms)

\* Mutant: the audit signal of every evaluation says "allowed".
Outcome_AlwaysAllowed(policyResults) == "allowed"

\* policyResults.allowed ? 'allowed' : 'denied'
Outcome(policyResults) == IF policyResults.allowed THEN "allowed" ELSE "denied"

\* The AuditSignal of step 4, stamped with the clock reading ms
AuditSignalOf(request, policyResults, ms) ==
  [timestamp |-> toISOString(ms),
   action |-> request.action,
   principal |-> request.principal,
   resource |-> request.resourceId,
   outcome |-> Outcome(policyResults),
   metadata |-> [requestId |-> request.requestId,
                 policies |-> policyResults.policies,
                 reasons |-> policyResults.reasons]]

\* Mutant: the event is attributed to the request, not to the principal.
AnalyticsEventOf_UserIsRequest(request, policyResults) ==
  [eventName |-> "governance.evaluation",
   properties |-> [requestId |-> request.requestId,
                   resourceId |-> request.resourceId,
                   action |-> request.action,
                   principal |-> request.principal,
                   allowed |-> policyResults.allowed],
   userId |-> request.requestId]

\* The AnalyticsEvent of step 3 (its timestamp is not carried)
AnalyticsEventOf(request, policyResults) ==
  [eventName |-> "governance.evaluation",
   properties |-> [requestId |-> request.requestId,
                   resourceId |-> request.resourceId,
                   action |-> request.action,
                   principal |-> request.principal,
                   allowed |-> policyResults.allowed],
   userId |-> request.principal]

\* Step 3 up to its await
TrackBegin(s) ==
  Issue(s, "track", AnalyticsEventOf(Get(s.input), Get(s.policyResults)),
        "awaitTrack")

\* Mutant: a failure envelope from track is thrown.
AfterTrack_ChecksEnvelope(s, outcome, idMs, signalMs) ==
  LET s1 == Returned(s, "track", outcome)
      request == Get(s.input)
      s2 == [s1 EXCEPT !.auditId = AuditId(request, idMs),
                       !.trace = Append(@, ClockEvent(idMs))]
  IN IF outcome.kind = "reject"
     THEN Throw(s1, Wrap("Governance evaluation failed", outcome.thrown))
     ELSE IF ~outcome.value.success
     THEN Throw(s1, Wrap("Governance evaluation failed",
                         ErrorOf(OrDefault(outcome.value.error,
                                           "Analytics tracking failed"))))
     ELSE EmitBegin(s2, AuditSignalOf(request, Get(s.policyResults), signalMs))

\* From the return of analyticsHub.track to the next await: the result is
\* not looked at; idMs and signalMs are the two clock readings of step 4.
AfterTrack(s, outcome, idMs, signalMs) ==
  LET s1 == Returned(s, "track", outcome)
      request == Get(s.input)
      s2 == [s1 EXCEPT !.auditId = AuditId(request, idMs),
                       !.trace = Append(@, ClockEvent(idMs))]
  IN IF outcome.kind = "reject"
     THEN Throw(s1, Wrap("Governance evaluation failed", outcome.thrown))
     ELSE EmitBegin(s2, AuditSignalOf(request, Get(s.policyResults), signalMs))

----------------------------------------------------------------------------
(* getFinOpsSummary, src/src/server.ts 197-239 *)

\* Mutant: a forecast on a threshold counts as beyond it.
BudgetStatus_NonStrict(currentCost, forecast) ==
  IF forecast * 10 >= currentCost * 15 THEN "exceeded"
  ELSE IF forecast * 10 >= currentCost * 12 THEN "warning"
  ELSE "within"

\* forecast > currentCost * 1.5 ? 'exceeded' : forecast > currentCost * 1.2
\* ? 'warning' : 'within', on amounts scaled by ten
BudgetStatus(currentCost, forecast) ==
  IF forecast * 10 > currentCost * 15 THEN "exceeded"
  ELSE IF forecast * 10 > currentCost * 12 THEN "warning"
  ELSE "within"

FinOpsSummaryOf(resourceId, metrics, forecast) ==
  [resourceId |-> resourceId,
   currentCost |-> metrics.totalCost,
   forecast |-> forecast.projectedCost,
   budgetStatus |-> BudgetStatus(metrics.totalCost, forecast.projectedCost)]

\* Mutant: the success flag of the envelope is not looked at.
NoPayload_DataOnly(resp) == ~IsSome(resp.data)

\* !response.success || !response.data
NoPayload(resp) == ~resp.success \/ ~IsSome(resp.data)

\* Mutant: evaluateGovernance has no inner try/catch around the cost step.
FinOpsThrows_Fatal(s, thrown) ==
  LET wrapped == Wrap("FinOps summary failed", thrown)
  IN IF s.op = "getFinOpsSummary"
     THEN Throw(s, wrapped)
     ELSE Throw(s, Wrap("Governance evaluation failed", wrapped))

\* getFinOpsSummary throws: it is the operation's error, or, inside
\* evaluateGovernance, it is caught and costImpact stays undefined.
FinOpsThrows(s, thrown) ==
  LET wrapped == Wrap("FinOps summary failed", thrown)
  IN IF s.op = "getFinOpsSummary"
     THEN Throw(s, wrapped)
     ELSE TrackBegin([s EXCEPT !.costImpact = None])

\* getFinOpsSummary returns its summary
FinOpsReturns(s, summary) ==
  IF s.op = "getFinOpsSummary"
  THEN Return(s, [kind |-> "summary", value |-> summary])
  ELSE TrackBegin([s EXCEPT !.costImpact = Some(summary)])

\* The call of getFinOpsSummary up to its await: the two queries are issued
\* in turn and Promise.all is awaited.  A query that throws at once ends the
\* try block there: the next query is not issued, an earlier one stays in
\* flight.  (The dates of the metrics query are not carried.)
FinOpsBegin(s, resourceId, metricsSync, forecastSync) ==
  LET s1 == [s EXCEPT !.resourceId = resourceId,
                      !.metricsResponse = None,
                      !.forecastResponse = None]
      s2 == Issue(s1, "getCostMetrics", [services |-> <<resourceId>>],
                  "awaitCost")
      s3 == Issue(s2, "getForecast",
                  [horizon |-> ForecastHorizon, services |-> <<resourceId>>],
                  "awaitCost")
  IN IF metricsSync.kind = "throw"
     THEN FinOpsThrows(Returned(s2, "getCostMetrics", metricsSync),
                       metricsSync.thrown)
     ELSE IF forecastSync.kind = "throw"
     THEN FinOpsThrows(Returned(s3, "getForecast", forecastSync),
                       forecastSync.thrown)
     ELSE s3

\* Mutant: a forecast without a payload counts as a forecast of zero.
FinOpsBody_ForecastOptional(s) ==
  LET metricsResponse == Get(s.metricsResponse)
      forecastResponse == Get(s.forecastResponse)
  IN IF NoPayload(metricsResponse)
     THEN FinOpsThrows(s, ErrorOf(OrDefault(metricsResponse.error,
                                            "Failed to get cost metrics")))
     ELSE FinOpsReturns(s, FinOpsSummaryOf(s.resourceId,
                                           Get(metricsResponse.data),
                                           IF NoPayload(forecastResponse)
                                           THEN Forecast(0)
                                           ELSE Get(forecastResponse.data)))

\* Lines 214-235, once Promise.all has resolved with both responses
FinOpsBody(s) ==
  LET metricsResponse == Get(s.metricsResponse)
      forecastResponse == Get(s.forecastResponse)
  IN IF NoPayload(metricsResponse)
     THEN FinOpsThrows(s, ErrorOf(OrDefault(metricsResponse.error,
                                            "Failed to get cost metrics")))
     ELSE IF NoPayload(forecastResponse)
     THEN FinOpsThrows(s, ErrorOf(OrDefault(forecastResponse.error,
                                            "Failed to get cost forecast")))
     ELSE FinOpsReturns(s, FinOpsSummaryOf(s.resourceId,
                                           Get(metricsResponse.data),
                                           Get(forecastResponse.data)))

\* One of the two promises given to Promise.all settles.  A rejection
\* rejects Promise.all at once, whatever the other promise does later; a
\* promise that settles after Promise.all has settled changes nothing.
AfterCost(s, adapter, outcome) ==
  LET s1 == Returned(s, adapter, outcome)
      s2 == IF adapter = "getCostMetrics"
            THEN [s1 EXCEPT !.metricsResponse = Some(outcome.value)]
            ELSE [s1 EXCEPT !.forecastResponse = Some(outcome.value)]
  IN IF s.pc # "awaitCost" THEN s1
     ELSE IF outcome.kind = "reject" THEN FinOpsThrows(s1, outcome.thrown)
     ELSE IF IsSome(s2.metricsResponse) /\ IsSome(s2.forecastResponse)
          THEN FinOpsBody(s2)
     ELSE s2

----------------------------------------------------------------------------
(* evaluateGovernance, steps 1 and 2 *)

PolicyRequestOf(request) ==
  [principal |-> request.principal,
   action |-> request.action,
   resource |-> request.resourceId,
   context |-> IF IsSome(request.context) THEN Get(request.context) ELSE {}]

\* Mutant: the policies and the reasons change places.
PolicyResultsOf_Swapped(data) ==
  [allowed |-> data.allowed,
   policies |-> data.reasons,
   reasons |-> data.appliedPolicies]

\* policyResults, lines 90-94
PolicyResultsOf(data) ==
  [allowed |-> data.allowed,
   policies |-> data.appliedPolicies,
   reasons |-> data.reasons]

\* The call of evaluateGovernance up to its first await
EvaluateBegin(request) ==
  Issue([IdleFrame EXCEPT !.op = "evaluateGovernance",
                          !.input = Some(request)],
        "evaluatePolicy", PolicyRequestOf(request), "awaitPolicy")

\* Mutant: the analytics event is sent before the cost queries.
AfterPolicy_TrackFirst(s, outcome, metricsSync, forecastSync) ==
  LET s1 == Returned(s, "evaluatePolicy", outcome)
      resp == outcome.value
  IN IF outcome.kind = "reject"
     THEN Throw(s1, Wrap("Governance evaluation failed", outcome.thrown))
     ELSE IF NoPayload(resp)
     THEN Throw(s1, Wrap("Governance evaluation failed",
                         ErrorOf(OrDefault(resp.error,
                                           "Policy evaluation failed"))))
     ELSE FinOpsBegin(TrackBegin([s1 EXCEPT !.policyResults =
                                   Some(PolicyResultsOf(Get(resp.data)))]),
                      Get(s.input).resourceId, metricsSync, forecastSync)

\* From the return of policyEngine.evaluatePolicy to the next await
AfterPolicy(s, outcome, metricsSync, forecastSync) ==
  LET s1 == Returned(s, "evaluatePolicy", outcome)
      resp == outcome.value
  IN IF outcome.kind = "reject"
     THEN Throw(s1, Wrap("Governance evaluation failed", outcome.thrown))
     ELSE IF NoPayload(resp)
     THEN Throw(s1, Wrap("Governance evaluation failed",
                         ErrorOf(OrDefault(resp.error,
                                           "Policy evaluation failed"))))
     ELSE FinOpsBegin([s1 EXCEPT !.policyResults =
                                   Some(PolicyResultsOf(Get(resp.data)))],
                      Get(s.input).resourceId, metricsSync, forecastSync)

----------------------------------------------------------------------------
(* resolveRBAC, src/src/server.ts 156-191 *)

\* `rbac.roles.${principal}` and `rbac.permissions.${role}`
RolesKey(principal) == "rbac.roles." \o principal
PermissionsKey(role) == "rbac.permissions." \o role

\* The promise of the roles lookup, and of the lookup for the i-th role
RolesSlot == "getConfig#0"
Slot(i) == "getConfig#" \o ToString(i)

LookupCall(slot, key) ==
  [kind |-> "call", op |-> "getConfig", arg |-> key, slot |-> slot]
LookupReturn(slot, outcome) ==
  [kind |-> "return", op |-> "getConfig", outcome |-> outcome, slot |-> slot]

\* The frame after configManager.getConfig(key) was called for `slot`
Lookup(s, slot, key) ==
  [s EXCEPT !.trace = Append(@, LookupCall(slot, key)),
            !.inflight = @ \cup {slot}]

\* The frame after the lookup of `slot` has come back
LookedUp(s, slot, outcome) ==
  [s EXCEPT !.trace = Append(@, LookupReturn(slot, outcome)),
            !.inflight = @ \ {slot}]

\* (data.value as { <field>?: string[] })?.<field> || []
ListOf(data, field) ==
  IF data.value.isNull \/ ~IsSome(data.value[field]) THEN <<>>
  ELSE Get(data.value[field])

RECURSIVE Flat(_)
\* Array.prototype.flat on an array of arrays of strings
Flat(lists) == IF Len(lists) = 0 THEN <<>> ELSE Head(lists) \o Flat(Tail(lists))

\* Mutant: the permissions are not deduplicated.
Dedupe_KeepAll(list) == list

RECURSIVE Dedupe(_)
\* Array.from(new Set(list)): the first occurrence of each entry, in order
Dedupe(list) ==
  IF Len(list) = 0 THEN <<>>
  ELSE LET front == Dedupe(SubSeq(list, 1, Len(list) - 1))
           last == list[Len(list)]
       IN IF \E i \in 1..Len(front) : front[i] = last THEN front
          ELSE Append(front, last)

RBACContextOf(principal, roles, permissions) ==
  [kind |-> "context", principal |-> principal, roles |-> roles,
   permissions |-> permissions]

\* The call of resolveRBAC up to its first await
ResolveBegin(s, principal) ==
  [Lookup([s EXCEPT !.op = "resolveRBAC", !.input = Some(principal)],
          RolesSlot, RolesKey(principal))
   EXCEPT !.pc = "awaitRoles"]

RECURSIVE LookupAll(_, _, _)
\* roles.map(async (role) => ...): the lookups for roles i.. are called in turn
LookupAll(s, roles, i) ==
  IF i > Len(roles) THEN s
  ELSE LookupAll(Lookup(s, Slot(i), PermissionsKey(roles[i])), roles, i + 1)

\* Lines 181-187, once Promise.all has resolved with every permission list
ResolveBody(s) ==
  Return(s, RBACContextOf(Get(s.input), s.roles,
                          Dedupe(Flat([i \in 1..Len(s.permissionSets) |->
                                        Get(s.permissionSets[i])]))))

\* Mutant: a roles lookup without a payload is an error.
AfterRoles_FailureThrows(s, outcome) ==
  LET s1 == LookedUp(s, RolesSlot, outcome)
      resp == outcome.value
      roles == ListOf(Get(resp.data), "roles")
      s2 == [s1 EXCEPT !.roles = roles,
                       !.permissionSets = [i \in 1..Len(roles) |-> None],
                       !.pc = "awaitPermissions"]
  IN IF outcome.kind = "reject"
     THEN Throw(s1, Wrap("RBAC resolution failed", outcome.thrown))
     ELSE IF NoPayload(resp)
     THEN Throw(s1, Wrap("RBAC resolution failed",
                         ErrorOf(OrDefault(resp.error, "No roles configured"))))
     ELSE IF Len(roles) = 0 THEN ResolveBody(s2)
     ELSE LookupAll(s2, roles, 1)

\* From the return of the roles lookup to the next await
AfterRoles(s, outcome) ==
  LET s1 == LookedUp(s, RolesSlot, outcome)
      resp == outcome.value
      roles == ListOf(Get(resp.data), "roles")
      s2 == [s1 EXCEPT !.roles = roles,
                       !.permissionSets = [i \in 1..Len(roles) |-> None],
                       !.pc = "awaitPermissions"]
  IN IF outcome.kind = "reject"
     THEN Throw(s1, Wrap("RBAC resolution failed", outcome.thrown))
     ELSE IF NoPayload(resp)
     THEN Return(s1, RBACContextOf(Get(s.input), <<>>, <<>>))
     ELSE IF Len(roles) = 0 THEN ResolveBody(s2)
     ELSE LookupAll(s2, roles, 1)

\* permConfig.success && permConfig.data ? (... .permissions || []) : []
PermissionsOf(resp) ==
  IF NoPayload(resp) THEN <<>> ELSE ListOf(Get(resp.data), "permissions")

\* Mutant: the permission lists are collected in the order in which the
\* lookups complete.
AfterPermissions_CompletionOrder(s, i, outcome) ==
  LET s1 == LookedUp(s, Slot(i), outcome)
      free == {j \in 1..Len(s.permissionSets) : ~IsSome(s.permissionSets[j])}
      next == CHOOSE j \in free : \A k \in free : j <= k
      s2 == [s1 EXCEPT !.permissionSets[next] =
                         Some(PermissionsOf(outcome.value))]
  IN IF s.pc # "awaitPermissions" THEN s1
     ELSE IF outcome.kind = "reject"
     THEN Throw(s1, Wrap("RBAC resolution failed", outcome.thrown))
     ELSE IF \A j \in 1..Len(s2.permissionSets) : IsSome(s2.permissionSets[j])
          THEN ResolveBody(s2)
     ELSE s2

\* Mutant: a per-role lookup without a payload fails the operation.
AfterPermissions_FailureThrows(s, i, outcome) ==
  LET s1 == LookedUp(s, Slot(i), outcome)
      s2 == [s1 EXCEPT !.permissionSets[i] = Some(PermissionsOf(outcome.value))]
  IN IF s.pc # "awaitPermissions" THEN s1
     ELSE IF outcome.kind = "reject"
     THEN Throw(s1, Wrap("RBAC resolution failed", outcome.thrown))
     ELSE IF NoPayload(outcome.value)
     THEN Throw(s1, Wrap("RBAC resolution failed",
                         ErrorOf(OrDefault(outcome.value.error,
                                           "No permissions configured"))))
     ELSE IF \A j \in 1..Len(s2.permissionSets) : IsSome(s2.permissionSets[j])
          THEN ResolveBody(s2)
     ELSE s2

\* The lookup for the i-th role settles.  A rejection rejects Promise.all at
\* once, whatever the other lookups do later; a lookup that settles after
\* Promise.all has settled changes nothing.
AfterPermissions(s, i, outcome) ==
  LET s1 == LookedUp(s, Slot(i), outcome)
      s2 == [s1 EXCEPT !.permissionSets[i] = Some(PermissionsOf(outcome.value))]
  IN IF s.pc # "awaitPermissions" THEN s1
     ELSE IF outcome.kind = "reject"
     THEN Throw(s1, Wrap("RBAC resolution failed", outcome.thrown))
     ELSE IF \A j \in 1..Len(s2.permissionSets) : IsSome(s2.permissionSets[j])
          THEN ResolveBody(s2)
     ELSE s2

----------------------------------------------------------------------------
(* Request handlers, src/src/handlers/index.ts 34-192 *)

\* What a handler is given: any JavaScript value.  A property that is
\* missing reads as undefined.
JsUndefined == [type |-> "undefined"]
JsNull == [type |-> "null"]
JsString(str) == [type |-> "string", str |-> str]
JsNumber(num) == [type |-> "number", num |-> num]
JsArray(items) == [type |-> "array", items |-> items]
JsObject(fields) == [type |-> "object", fields |-> fields]

\* typeof v
TypeOf(v) == IF v.type \in {"null", "array"} THEN "object" ELSE v.type

\* !v
Falsy(v) ==
  \/ v.type \in {"undefined", "null"}
  \/ v.type = "string" /\ v.str = ""
  \/ v.type = "number" /\ v.num = 0

\* String.prototype.trim, on the strings that occur: one of white space
\* alone trims to the empty string, the others have no white space
Blank == {"", " ", " \t "}
Trim(str) == IF str \in Blank THEN "" ELSE str

\* !v || typeof v !== 'string' || v.trim() === ''
NotNonEmptyString(v) ==
  Falsy(v) \/ TypeOf(v) # "string" \/ Trim(v.str) = ""

\* v !== undefined && (typeof v !== 'object' || v === null
\*                     || Array.isArray(v))
NotObjectIfProvided(v) ==
  /\ v.type # "undefined"
  /\ (TypeOf(v) # "object" \/ v.type = "null" \/ v.type = "array")

\* (value as Record<string, unknown>)[name]
Prop(value, name) ==
  IF value.type = "object" THEN value.fields[name] ELSE JsUndefined

RECURSIVE FirstBad(_, _, _)
\* The checks of the string fields, in turn: the Error of the first field
\* that fails one, if any
FirstBad(value, names, what) ==
  IF Len(names) = 0 THEN None
  ELSE IF NotNonEmptyString(Prop(value, Head(names)))
  THEN Some(ErrorOf("Invalid " \o what \o ": " \o Head(names)
                    \o " must be a non-empty string"))
  ELSE FirstBad(value, Tail(names), what)

\* Mutant: the context of a request is not checked.
validateGovernanceRequest_SkipsContext(request) ==
  IF Falsy(request) \/ TypeOf(request) # "object"
  THEN Some(ErrorOf("Invalid request: must be an object"))
  ELSE FirstBad(request, <<"requestId", "resourceId", "action", "principal">>,
                "request")

\* validateGovernanceRequest: the Error it throws, if it throws
validateGovernanceRequest(request) ==
  LET bad == FirstBad(request,
                      <<"requestId", "resourceId", "action", "principal">>,
                      "request")
  IN IF Falsy(request) \/ TypeOf(request) # "object"
     THEN Some(ErrorOf("Invalid request: must be an object"))
     ELSE IF IsSome(bad) THEN bad
     ELSE IF NotObjectIfProvided(Prop(request, "context"))
     THEN Some(ErrorOf("Invalid request: context must be an object if provided"))
     ELSE None

\* Mutant: the outcome of a signal is not checked.
validateAuditSignal_SkipsOutcome(signal) ==
  LET bad == FirstBad(signal,
                      <<"timestamp", "action", "principal", "resource">>,
                      "audit signal")
  IN IF Falsy(signal) \/ TypeOf(signal) # "object"
     THEN Some(ErrorOf("Invalid audit signal: must be an object"))
     ELSE IF IsSome(bad) THEN bad
     ELSE IF NotObjectIfProvided(Prop(signal, "metadata"))
     THEN Some(ErrorOf(
            "Invalid audit signal: metadata must be an object if provided"))
     ELSE None

\* validateAuditSignal: the Error it throws, if it throws
validateAuditSignal(signal) ==
  LET bad == FirstBad(signal,
                      <<"timestamp", "action", "principal", "resource",
                        "outcome">>,
                      "audit signal")
  IN IF Falsy(signal) \/ TypeOf(signal) # "object"
     THEN Some(ErrorOf("Invalid audit signal: must be an object"))
     ELSE IF IsSome(bad) THEN bad
     ELSE IF NotObjectIfProvided(Prop(signal, "metadata"))
     THEN Some(ErrorOf(
            "Invalid audit signal: metadata must be an object if provided"))
     ELSE None

\* The string a property holds, as the core reads it
StringOf(v) == IF v.type = "string" THEN v.str ELSE Undefined

\* The value handed on, seen as a GovernanceRequest
AsGovernanceRequest(request) ==
  [requestId |-> StringOf(Prop(request, "requestId")),
   resourceId |-> StringOf(Prop(request, "resourceId")),
   action |-> StringOf(Prop(request, "action")),
   principal |-> StringOf(Prop(request, "principal")),
   context |-> IF Prop(request, "context").type = "object"
               THEN Some(Prop(request, "context").fields) ELSE None]

\* The value handed on, seen as an AuditSignal
AsAuditSignal(signal) ==
  [timestamp |-> StringOf(Prop(signal, "timestamp")),
   action |-> StringOf(Prop(signal, "action")),
   principal |-> StringOf(Prop(signal, "principal")),
   resource |-> StringOf(Prop(signal, "resource")),
   outcome |-> StringOf(Prop(signal, "outcome")),
   metadata |-> IF Prop(signal, "metadata").type = "object"
                THEN Some(Prop(signal, "metadata").fields) ELSE None]

\* The frame of a handler that was given `value`
HandlerFrame(handler, value) ==
  [IdleFrame EXCEPT !.op = handler, !.via = handler, !.raw = Some(value)]

\* The handler calls the core operation `op` with `arg`: the frame goes on
\* as that operation's.
Delegate(s, op, arg) ==
  [s EXCEPT !.op = op, !.input = Some(arg),
            !.delegated = Append(@, [op |-> op, arg |-> arg])]

\* handleGovernanceRequest up to its first await
HandleGovernanceBegin(request) ==
  LET s == HandlerFrame("handleGovernanceRequest", request)
      thrown == validateGovernanceRequest(request)
      valid == AsGovernanceRequest(request)
  IN IF IsSome(thrown) THEN Throw(s, Get(thrown))
     ELSE Issue(Delegate(s, "evaluateGovernance", valid),
                "evaluatePolicy", PolicyRequestOf(valid), "awaitPolicy")

\* handleAuditEmission up to its first await
HandleAuditBegin(signal) ==
  LET s == HandlerFrame("handleAuditEmission", signal)
      thrown == validateAuditSignal(signal)
      valid == AsAuditSignal(signal)
  IN IF IsSome(thrown) THEN Throw(s, Get(thrown))
     ELSE EmitBegin(Delegate(s, "emitAuditSignal", valid), valid)

----------------------------------------------------------------------------
(* Services, src/src/services/index.ts: they are given the adapters with   *)
(* each call, have no catch and answer with an envelope of their own       *)

\* `${x}` for an optional string
Interpolated(x) == IF x = Undefined THEN "undefined" ELSE x

\* The service returns the envelope `resp`.
Answer(s, resp) == Return(s, [kind |-> "response", value |-> resp])

\* Mutant: a decision that fails validation is an exception.
AfterRecordValidate_Throws(s, outcome) ==
  LET s1 == Returned(s, "validate", outcome)
      resp == outcome.value
      errors == IF IsSome(resp.data)
                THEN Join(Messages(Get(resp.data).errors), ", ")
                ELSE "undefined"
  IN IF outcome.kind = "reject" THEN Throw(s1, outcome.thrown)
     ELSE IF ValidationFailed(outcome.value)
     THEN Throw(s1, ErrorOf("Schema validation failed: " \o errors))
     ELSE Issue(s1, "publishEvent", Get(s.input), "awaitRecordPublish")

\* From the return of schemaRegistry.validate to the next await, or to the
\* end; `errors` is validation.data?.errors.map(e => e.message).join(', ')
\* as interpolated, "undefined" without data
AfterRecordValidate(s, outcome) ==
  LET s1 == Returned(s, "validate", outcome)
      resp == outcome.value
      errors == IF IsSome(resp.data)
                THEN Join(Messages(Get(resp.data).errors), ", ")
                ELSE "undefined"
  IN IF outcome.kind = "reject" THEN Throw(s1, outcome.thrown)
     ELSE IF ValidationFailed(outcome.value)
     THEN Answer(s1, Response(FALSE, None,
                              "Schema validation failed: " \o errors))
     ELSE Issue(s1, "publishEvent", Get(s.input), "awaitRecordPublish")

\* return adapters.dashboard.publishEvent(decision)
AfterRecordPublish(s, outcome) ==
  LET s1 == Returned(s, "publishEvent", outcome)
  IN IF outcome.kind = "reject" THEN Throw(s1, outcome.thrown)
     ELSE Answer(s1, outcome.value)

\* Mutant: the analytics are queried whatever the cost query answered.
AfterServiceCost_QueriesAnyway(s, outcome) ==
  LET s1 == Returned(s, "getCostMetrics", outcome)
  IN IF outcome.kind = "reject" THEN Throw(s1, outcome.thrown)
     ELSE Issue([s1 EXCEPT !.metricsResponse = Some(outcome.value)],
                "query",
                [metric |-> "resource-usage",
                 dimensions |-> <<"resourceId">>,
                 filters |-> [resourceId |-> Get(s.input)]],
                "awaitQuery")

\* From the return of costOps.getCostMetrics to the next await, or to the
\* end (the time range of the analytics query is not carried)
AfterServiceCost(s, outcome) ==
  LET s1 == Returned(s, "getCostMetrics", outcome)
  IN IF outcome.kind = "reject" THEN Throw(s1, outcome.thrown)
     ELSE IF NoPayload(outcome.value)
     THEN Answer(s1, Response(FALSE, None,
                              "Failed to fetch cost metrics: "
                                \o Interpolated(outcome.value.error)))
     ELSE Issue([s1 EXCEPT !.metricsResponse = Some(outcome.value)],
                "query",
                [metric |-> "resource-usage",
                 dimensions |-> <<"resourceId">>,
                 filters |-> [resourceId |-> Get(s.input)]],
                "awaitQuery")

\* From the return of analyticsHub.query to the end
AfterQuery(s, outcome) ==
  LET s1 == Returned(s, "query", outcome)
  IN IF outcome.kind = "reject" THEN Throw(s1, outcome.thrown)
     ELSE IF NoPayload(outcome.value)
     THEN Answer(s1, Response(FALSE, None,
                              "Failed to fetch analytics: "
                                \o Interpolated(outcome.value.error)))
     ELSE Answer(s1, Response(TRUE,
                              Some([costMetrics |->
                                      Get(Get(s.metricsResponse).data),
                                    analyticsData |-> Get(outcome.value.data)]),
                              Undefined))

----------------------------------------------------------------------------
(* Command-line interface, src/unnamed/part_000 99-107 and 126-182: the    *)
(* finops command                                                          *)

\* args.indexOf(flag): the position from 0, or -1
IndexOf(args, flag) ==
  IF \E i \in 1..Len(args) : args[i] = flag
  THEN (CHOOSE i \in 1..Len(args) :
          args[i] = flag /\ \A j \in 1..(i - 1) : args[j] # flag) - 1
  ELSE -1

\* args[i], positions from 0: undefined past the end
ArgAt(args, i) == IF i + 1 \in 1..Len(args) THEN args[i + 1] ELSE Undefined

\* handleFinOps: the summary it prints.  Its two amounts, 45.2 and 135.6,
\* are carried in tenths of a currency unit: the budget rule compares the
\* ratio of two amounts, whatever their unit.
handleFinOps(resourceId) ==
  [resourceId |-> resourceId,
   currentCost |-> 452,
   forecast |-> 1356,
   budgetStatus |-> "within"]

\* main, given process.argv.slice(2): the finops command, and the usage
\* message for a command that is none.  An error is written to stderr and
\* the process exits with code 1.
MainBegin(args) ==
  LET s == [IdleFrame EXCEPT !.op = "main", !.via = "main",
                             !.input = Some(args)]
      command == ArgAt(args, 0)
      resourceIdx == IndexOf(args, "--resource")
      resourceId == ArgAt(args, resourceIdx + 1)
      exit(stderr) ==
        [s EXCEPT !.pc = "done",
                  !.result = Some([kind |-> "exit", code |-> 1,
                                   stderr |-> stderr])]
  IN IF command = "finops"
     THEN IF resourceIdx = -1 \/ resourceId \in {Undefined, ""}
          THEN exit("Error: Missing --resource <id> argument")
          ELSE Return(s, [kind |-> "printed",
                          value |-> handleFinOps(resourceId)])
     ELSE exit("Usage: cli <command> [options]")

----------------------------------------------------------------------------
(* Standalone inputs *)

Signals ==
  { [timestamp |-> toISOString(0), action |-> "read", principal |-> "alice",
     resource |-> "res-1", outcome |-> "allowed",
     metadata |-> [source |-> "cli"]],
    [timestamp |-> toISOString(1), action |-> "delete", principal |-> "bob",
     resource |-> "res-2", outcome |-> "denied",
     metadata |-> [source |-> "cli"]],
    [timestamp |-> "yesterday", action |-> "write", principal |-> "carol",
     resource |-> "res-1", outcome |-> "error",
     metadata |-> [source |-> "cli"]] }

ResourceIds == {"res-1", "res-2"}

\* Values a string property may hold that are no non-empty string
NoStrings ==
  {JsUndefined, JsNull, JsString(""), JsString(" \t "), JsNumber(42)}

\* Values an object property may hold that are no object
NoObjects == {JsNull, JsArray(<<>>), JsString("prod"), JsNumber(0)}

GoodRequest ==
  [requestId |-> JsString("req-1"), resourceId |-> JsString("res-1"),
   action |-> JsString("read"), principal |-> JsString("alice"),
   context |-> JsObject({<<"env", "prod">>})]

RequestStrings == {"requestId", "resourceId", "action", "principal"}

\* What handleGovernanceRequest may be given: requests that are valid (with
\* and without context), requests with one or two properties spoilt, and
\* values that are no objects
RawRequests ==
  { JsObject(GoodRequest),
    JsObject([GoodRequest EXCEPT !.requestId = JsString("req-2"),
                                 !.context = JsUndefined]) }
  \cup {JsObject([GoodRequest EXCEPT ![f] = v]) :
          f \in RequestStrings, v \in NoStrings}
  \cup {JsObject([GoodRequest EXCEPT !.context = v]) : v \in NoObjects}
  \cup {JsObject([GoodRequest EXCEPT ![f] = JsUndefined, ![g] = JsString("")]) :
          f \in RequestStrings, g \in RequestStrings \cup {"context"}}
  \cup {JsUndefined, JsNull, JsString("req-1"), JsArray(<<>>)}

GoodSignal ==
  [timestamp |-> JsString(toISOString(0)), action |-> JsString("read"),
   principal |-> JsString("alice"), resource |-> JsString("res-1"),
   outcome |-> JsString("denied"), metadata |-> JsObject({<<"source", "cli">>})]

SignalStrings == {"timestamp", "action", "principal", "resource", "outcome"}

\* What handleAuditEmission may be given
RawSignals ==
  { JsObject(GoodSignal),
    JsObject([GoodSignal EXCEPT !.outcome = JsString("allowed"),
                                !.metadata = JsUndefined]) }
  \cup {JsObject([GoodSignal EXCEPT ![f] = v]) :
          f \in SignalStrings, v \in NoStrings}
  \cup {JsObject([GoodSignal EXCEPT !.metadata = v]) : v \in NoObjects}
  \cup {JsObject([GoodSignal EXCEPT ![f] = JsNumber(42), ![g] = JsNull]) :
          f \in SignalStrings, g \in SignalStrings \cup {"metadata"}}
  \cup {JsUndefined, JsNull, JsString("denied"), JsArray(<<>>)}

\* The GovernanceEvents recordDecision may be given
Decisions ==
  { [eventType |-> "governance.decision", severity |-> "info",
     timestamp |-> 0, details |-> [requestId |-> "req-1", allowed |-> TRUE]],
    [eventType |-> "governance.decision", severity |-> "warning",
     timestamp |-> 1, details |-> [requestId |-> "req-2", allowed |-> FALSE]] }

\* What analyticsHub.query may answer; the data is a record of usage
QueryOutcomes ==
  { Resolve(Response(TRUE, Some([requests |-> 7]), Undefined)),
    Resolve(Response(FALSE, None, "analytics down")),
    Resolve(Response(FALSE, None, Undefined)),
    Resolve(Response(TRUE, None, Undefined)),
    Resolve(Response(FALSE, Some([requests |-> 3]), "stale analytics")),
    Reject(ErrorOf("query timeout")) }

\* process.argv.slice(2)
CliArgs ==
  { <<"finops", "--resource", "res-1">>,
    <<"finops", "--resource", "res-2", "--verbose">>,
    <<"finops", "--resource">>,
    <<"finops", "--resource", "">>,
    <<"finops">>,
    <<"--resource", "res-1">>,
    <<>> }

\* What the adapters will answer to one invocation of any of the four
\* operations, fixed in advance, with the operation and its argument.
ConcurrentScripts ==
  [op : {"evaluateGovernance"},
   request : Requests,
   policy : { Resolve(Response(TRUE, Some(PolicyAllow), Undefined)),
              Resolve(Response(TRUE, Some(PolicyDeny), Undefined)) },
   metrics : { Resolve(Response(TRUE, Some(Metrics(100)), Undefined)),
               Reject(ErrorOf("metrics timeout")) },
   forecast : { Resolve(Response(TRUE, Some(Forecast(125)), Undefined)) },
   track : { Ok },
   validate : { Resolve(Response(TRUE, Some(Valid), Undefined)) },
   publish : { Ok }]
  \cup
  [op : {"resolveRBAC"},
   principal : {"alice"},
   roles : { Resolve(Response(TRUE, Some(RolesConfig(<<"admin", "developer">>)),
                              Undefined)) },
   permissions :
     [RoleNames ->
        { Resolve(Response(TRUE, Some(PermissionsConfig(<<"read", "write">>)),
                           Undefined)) }]]
  \cup
  [op : {"getFinOpsSummary"},
   resourceId : {"res-1"},
   metrics : { Resolve(Response(TRUE, Some(Metrics(100)), Undefined)) },
   forecast : { Resolve(Response(TRUE, Some(Forecast(160)), Undefined)) }]
  \cup
  [op : {"emitAuditSignal"},
   signal : {sig \in Signals : sig.outcome # "error"},
   validate : { Resolve(Response(TRUE, Some(Valid), Undefined)) },
   publish : { Ok }]

----------------------------------------------------------------------------
(* Actions: one per public operation and one per awaited return *)

\* Mutant: the policy results are kept in a field of the instance, which
\* every invocation under way then reads.
Step_SharedPolicyResults(c, frame) ==
  /\ frames' =
       [d \in Calls |->
          IF d = c THEN frame
          ELSE IF /\ IsSome(frame.policyResults)
                  /\ IsSome(frames[d].policyResults)
                  /\ frames[d].pc # "done"
               THEN [frames[d] EXCEPT !.policyResults = frame.policyResults]
               ELSE frames[d]]
  /\ adapters' = adapters

\* A run of invocation c: its local variables change, and nothing else of
\* the instance or of the other invocations is written.
Step(c, frame) ==
  /\ frames' = [frames EXCEPT ![c] = frame]
  /\ adapters' = adapters

\* A caller invokes evaluateGovernance(request).
evaluateGovernance(c) ==
  /\ frames[c].pc = "idle"
  /\ script[c] = None
  /\ \E request \in Requests : Step(c, EvaluateBegin(request))
  /\ UNCHANGED <<now, script>>

\* A caller invokes emitAuditSignal(signal).
emitAuditSignal(c) ==
  /\ frames[c].pc = "idle"
  /\ script[c] = None
  /\ \E signal \in Signals :
       Step(c, EmitBegin([IdleFrame EXCEPT !.op = "emitAuditSignal",
                                           !.input = Some(signal)], signal))
  /\ UNCHANGED <<now, script>>

\* A caller invokes getFinOpsSummary(resourceId).
getFinOpsSummary(c) ==
  /\ frames[c].pc = "idle"
  /\ script[c] = None
  /\ \E resourceId \in ResourceIds :
       \E metricsSync \in SyncChoices(MetricsOutcomes) :
         \E forecastSync \in SyncChoices(ForecastOutcomes) :
           Step(c, FinOpsBegin([IdleFrame EXCEPT !.op = "getFinOpsSummary",
                                                 !.input = Some(resourceId)],
                               resourceId, metricsSync, forecastSync))
  /\ UNCHANGED <<now, script>>

evaluatePolicyReturns(c) ==
  /\ frames[c].pc = "awaitPolicy"
  /\ \E outcome \in PolicyOutcomes :
       /\ Scripted(c, "policy", outcome)
       /\ \E metricsSync \in SyncChoices(MetricsOutcomes) :
            \E forecastSync \in SyncChoices(ForecastOutcomes) :
              /\ ScriptedSync(c, "metrics", metricsSync)
              /\ ScriptedSync(c, "forecast", forecastSync)
              /\ Step(c, AfterPolicy(frames[c], outcome,
                                     metricsSync, forecastSync))
  /\ UNCHANGED <<now, script>>

getCostMetricsReturns(c) ==
  /\ frames[c].op \in {"evaluateGovernance", "getFinOpsSummary"}
  /\ "getCostMetrics" \in frames[c].inflight
  /\ \E outcome \in Settlements(MetricsOutcomes) :
       /\ Scripted(c, "metrics", outcome)
       /\ Step(c, AfterCost(frames[c], "getCostMetrics", outcome))
  /\ UNCHANGED <<now, script>>

getForecastReturns(c) ==
  /\ "getForecast" \in frames[c].inflight
  /\ \E outcome \in Settlements(ForecastOutcomes) :
       /\ Scripted(c, "forecast", outcome)
       /\ Step(c, AfterCost(frames[c], "getForecast", outcome))
  /\ UNCHANGED <<now, script>>

\* The clock is read twice when track has resolved (lines 123 and 125).
trackReturns(c) ==
  /\ frames[c].pc = "awaitTrack"
  /\ \E outcome \in TrackOutcomes :
       /\ Scripted(c, "track", outcome)
       /\ \E idMs \in now..MaxClock : \E signalMs \in idMs..MaxClock :
            /\ Step(c, AfterTrack(frames[c], outcome, idMs, signalMs))
            /\ now' = IF outcome.kind = "reject" THEN now ELSE signalMs
  /\ UNCHANGED script

validateReturns(c) ==
  /\ frames[c].pc = "awaitValidate"
  /\ \E outcome \in ValidateOutcomes :
       /\ Scripted(c, "validate", outcome)
       /\ Step(c, AfterValidate(frames[c], outcome))
  /\ UNCHANGED <<now, script>>

publishEventReturns(c) ==
  /\ frames[c].pc = "awaitPublish"
  /\ \E outcome \in PublishOutcomes :
       /\ Scripted(c, "publish", outcome)
       /\ Step(c, AfterPublish(frames[c], outcome))
  /\ UNCHANGED <<now, script>>

\* A caller invokes handleGovernanceRequest(request, core).
handleGovernanceRequest(c) ==
  /\ frames[c].pc = "idle"
  /\ script[c] = None
  /\ \E request \in RawRequests : Step(c, HandleGovernanceBegin(request))
  /\ UNCHANGED <<now, script>>

\* A caller invokes handleAuditEmission(signal, core).
handleAuditEmission(c) ==
  /\ frames[c].pc = "idle"
  /\ script[c] = None
  /\ \E signal \in RawSignals : Step(c, HandleAuditBegin(signal))
  /\ UNCHANGED <<now, script>>

\* The command-line interface is run with `args`.
main(c) ==
  /\ frames[c].pc = "idle"
  /\ script[c] = None
  /\ \E args \in CliArgs : Step(c, MainBegin(args))
  /\ UNCHANGED <<now, script>>

\* A caller invokes resolveRBAC(principal).
resolveRBAC(c) ==
  /\ frames[c].pc = "idle"
  /\ script[c] = None
  /\ \E principal \in Principals : Step(c, ResolveBegin(IdleFrame, principal))
  /\ UNCHANGED <<now, script>>

\* The lookup of line 158 comes back.
getRolesReturns(c) ==
  /\ frames[c].pc = "awaitRoles"
  /\ \E outcome \in RolesOutcomes :
       /\ Scripted(c, "roles", outcome)
       /\ Step(c, AfterRoles(frames[c], outcome))
  /\ UNCHANGED <<now, script>>

\* One of the lookups of line 174 comes back.
getPermissionsReturns(c) ==
  /\ \E i \in 1..Len(frames[c].roles) :
       /\ Slot(i) \in frames[c].inflight
       /\ \E outcome \in PermissionsOutcomes :
            /\ ScriptedLookup(c, frames[c].roles[i], outcome)
            /\ Step(c, AfterPermissions(frames[c], i, outcome))
  /\ UNCHANGED <<now, script>>

\* A caller invokes recordDecision(decision, adapters).
recordDecision(c) ==
  /\ frames[c].pc = "idle"
  /\ script[c] = None
  /\ \E decision \in Decisions :
       Step(c, Issue([IdleFrame EXCEPT !.op = "recordDecision",
                                       !.input = Some(decision)],
                     "validate",
                     [schemaId |-> "governance-event", data |-> decision],
                     "awaitRecordValidate"))
  /\ UNCHANGED <<now, script>>

recordValidateReturns(c) ==
  /\ frames[c].pc = "awaitRecordValidate"
  /\ \E outcome \in ValidateOutcomes :
       Step(c, AfterRecordValidate(frames[c], outcome))
  /\ UNCHANGED <<now, script>>

recordPublishReturns(c) ==
  /\ frames[c].pc = "awaitRecordPublish"
  /\ \E outcome \in PublishOutcomes :
       Step(c, AfterRecordPublish(frames[c], outcome))
  /\ UNCHANGED <<now, script>>

\* A caller invokes getGovernanceMetrics(resourceId, adapters).  (The dates
\* of the metrics query are not carried.)
getGovernanceMetrics(c) ==
  /\ frames[c].pc = "idle"
  /\ script[c] = None
  /\ \E resourceId \in ResourceIds :
       Step(c, Issue([IdleFrame EXCEPT !.op = "getGovernanceMetrics",
                                       !.input = Some(resourceId)],
                     "getCostMetrics", [services |-> <<resourceId>>],
                     "awaitServiceCost"))
  /\ UNCHANGED <<now, script>>

serviceCostReturns(c) ==
  /\ frames[c].pc = "awaitServiceCost"
  /\ \E outcome \in Settlements(MetricsOutcomes) :
       Step(c, AfterServiceCost(frames[c], outcome))
  /\ UNCHANGED <<now, script>>

queryReturns(c) ==
  /\ frames[c].pc = "awaitQuery"
  /\ \E outcome \in QueryOutcomes : Step(c, AfterQuery(frames[c], outcome))
  /\ UNCHANGED <<now, script>>

\* The caller has its result and nothing of the invocation is left: the slot
\* is free for the next invocation.
Finish(c) ==
  /\ frames[c].pc = "done"
  /\ frames[c].inflight = {}
  /\ script[c] = None
  /\ Step(c, IdleFrame)
  /\ UNCHANGED <<now, script>>

Returns(c) ==
  \/ evaluatePolicyReturns(c)
  \/ getCostMetricsReturns(c)
  \/ getForecastReturns(c)
  \/ trackReturns(c)
  \/ validateReturns(c)
  \/ publishEventReturns(c)

Lookups(c) ==
  \/ getRolesReturns(c)
  \/ getPermissionsReturns(c)

ServiceReturns(c) ==
  \/ recordValidateReturns(c)
  \/ recordPublishReturns(c)
  \/ serviceCostReturns(c)
  \/ queryReturns(c)

----------------------------------------------------------------------------
(* One caller, any adapter behaviour *)

Init ==
  /\ now = 0
  /\ frames = [c \in Calls |-> IdleFrame]
  /\ adapters = AdapterCollection
  /\ script = [c \in Calls |-> None]

Next ==
  \E c \in Solo :
    \/ evaluateGovernance(c)
    \/ emitAuditSignal(c)
    \/ getFinOpsSummary(c)
    \/ resolveRBAC(c)
    \/ handleGovernanceRequest(c)
    \/ handleAuditEmission(c)
    \/ main(c)
    \/ recordDecision(c)
    \/ getGovernanceMetrics(c)
    \/ Returns(c)
    \/ Lookups(c)
    \/ ServiceReturns(c)
    \/ Finish(c)

Spec == Init /\ [][Next]_vars

----------------------------------------------------------------------------
(* Two invocations of evaluateGovernance, one after the other, against    *)
(* adapters whose answers are fixed in advance and differ between the two *)
(* invocations in the answer of analyticsHub.track alone                  *)

evaluateGovernanceScripted(c) ==
  /\ frames[c].pc = "idle"
  /\ IsSome(script[c])
  /\ \A other \in Calls \ Solo :
       c = other => \A first \in Solo : /\ frames[first].pc = "done"
                                        /\ frames[first].inflight = {}
  /\ Step(c, EvaluateBegin(Get(script[c]).request))
  /\ UNCHANGED <<now, script>>

InitPair ==
  /\ now = 0
  /\ frames = [c \in Calls |-> IdleFrame]
  /\ adapters = AdapterCollection
  /\ \E base \in Scripts : \E track \in [Calls -> TrackOutcomes] :
       script = [c \in Calls |-> Some([base EXCEPT !.track = track[c]])]

NextPair ==
  \E c \in Calls :
    \/ evaluateGovernanceScripted(c)
    \/ Returns(c)

SpecPair == InitPair /\ [][NextPair]_vars

----------------------------------------------------------------------------
(* Two concurrent invocations of resolveRBAC for the same principal,       *)
(* against a configuration adapter whose answer for each key is fixed in   *)
(* advance: the invocations differ in the order in which their lookups     *)
(* complete, and in nothing else                                           *)

resolveRBACScripted(c) ==
  /\ frames[c].pc = "idle"
  /\ IsSome(script[c])
  /\ Step(c, ResolveBegin(IdleFrame, Get(script[c]).principal))
  /\ UNCHANGED <<now, script>>

InitOrder ==
  /\ now = 0
  /\ frames = [c \in Calls |-> IdleFrame]
  /\ adapters = AdapterCollection
  /\ \E base \in ConfigScripts : script = [c \in Calls |-> Some(base)]

NextOrder ==
  \E c \in Calls :
    \/ resolveRBACScripted(c)
    \/ Lookups(c)

SpecOrder == InitOrder /\ [][NextOrder]_vars

----------------------------------------------------------------------------
(* Two invocations, of any two operations, that run concurrently on one    *)
(* instance: their steps interleave in every way, each against its own     *)
(* adapter answers                                                         *)

evaluateGovernanceConcurrent(c) ==
  /\ frames[c].pc = "idle"
  /\ IsSome(script[c])
  /\ Get(script[c]).op = "evaluateGovernance"
  /\ Step(c, EvaluateBegin(Get(script[c]).request))
  /\ UNCHANGED <<now, script>>

resolveRBACConcurrent(c) ==
  /\ frames[c].pc = "idle"
  /\ IsSome(script[c])
  /\ Get(script[c]).op = "resolveRBAC"
  /\ Step(c, ResolveBegin(IdleFrame, Get(script[c]).principal))
  /\ UNCHANGED <<now, script>>

getFinOpsSummaryConcurrent(c) ==
  /\ frames[c].pc = "idle"
  /\ IsSome(script[c])
  /\ Get(script[c]).op = "getFinOpsSummary"
  /\ LET resourceId == Get(script[c]).resourceId
     IN Step(c, FinOpsBegin([IdleFrame EXCEPT !.op = "getFinOpsSummary",
                                              !.input = Some(resourceId)],
                            resourceId, NoThrow, NoThrow))
  /\ UNCHANGED <<now, script>>

emitAuditSignalConcurrent(c) ==
  /\ frames[c].pc = "idle"
  /\ IsSome(script[c])
  /\ Get(script[c]).op = "emitAuditSignal"
  /\ LET signal == Get(script[c]).signal
     IN Step(c, EmitBegin([IdleFrame EXCEPT !.op = "emitAuditSignal",
                                            !.input = Some(signal)], signal))
  /\ UNCHANGED <<now, script>>

InitConcurrent ==
  /\ now = 0
  /\ frames = [c \in Calls |-> IdleFrame]
  /\ adapters = AdapterCollection
  /\ \E scripts \in [Calls -> ConcurrentScripts] :
       script = [c \in Calls |-> Some(scripts[c])]

NextConcurrent ==
  \E c \in Calls :
    \/ evaluateGovernanceConcurrent(c)
    \/ resolveRBACConcurrent(c)
    \/ getFinOpsSummaryConcurrent(c)
    \/ emitAuditSignalConcurrent(c)
    \/ Returns(c)
    \/ Lookups(c)

SpecConcurrent == InitConcurrent /\ [][NextConcurrent]_vars

----------------------------------------------------------------------------
(* Reading a frame's history *)

Evaluations == {c \in Calls : frames[c].op = "evaluateGovernance"}
Emissions == {c \in Calls : frames[c].op = "emitAuditSignal"}

\* The positions in frame c's trace where `adapter` was called / returned
CallsOf(c, adapter) ==
  {i \in 1..Len(frames[c].trace) :
     frames[c].trace[i].kind = "call" /\ frames[c].trace[i].op = adapter}
ReturnsOf(c, adapter) ==
  {i \in 1..Len(frames[c].trace) :
     frames[c].trace[i].kind = "return" /\ frames[c].trace[i].op = adapter}

\* The outcomes with which `adapter` has returned in frame c
OutcomesOf(c, adapter) ==
  {frames[c].trace[i].outcome : i \in ReturnsOf(c, adapter)}

HasDecision(c) ==
  /\ frames[c].pc = "done"
  /\ Get(frames[c].result).kind = "decision"
HasError(c) ==
  /\ frames[c].pc = "done"
  /\ Get(frames[c].result).kind = "error"
DecisionOf(c) == Get(frames[c].result)

\* The place of each adapter call in the pipeline of evaluateGovernance
Stage(adapter) ==
  CASE adapter = "evaluatePolicy" -> 1
    [] adapter \in {"getCostMetrics", "getForecast"} -> 2
    [] adapter = "track" -> 3
    [] adapter = "validate" -> 4
    [] adapter = "publishEvent" -> 5

\* Some call of `before` was issued, or has returned, ahead of position i
IssuedBefore(c, before, i) == \E j \in CallsOf(c, before) : j < i
ReturnedBefore(c, before, i) == \E j \in ReturnsOf(c, before) : j < i

----------------------------------------------------------------------------
(* C1: within one evaluateGovernance call the adapter calls are issued in  *)
(* the fixed order policy, cost, analytics, schema, dashboard: a cost      *)
(* query is issued only after evaluatePolicy has returned, track only      *)
(* after the cost queries were issued, validate only after track has       *)
(* returned, publishEvent only after validate has returned, and no call of *)
(* an earlier stage is ever issued after a call of a later stage.          *)
C1_FixedCallOrder ==
  \A c \in Evaluations :
    LET trace == frames[c].trace
        calls == {i \in 1..Len(trace) : trace[i].kind = "call"}
    IN /\ \A i, j \in calls :
            i < j => Stage(trace[i].op) <= Stage(trace[j].op)
       /\ \A i \in calls :
            /\ Stage(trace[i].op) = 2 =>
                 ReturnedBefore(c, "evaluatePolicy", i)
            /\ trace[i].op = "track" => IssuedBefore(c, "getCostMetrics", i)
            /\ trace[i].op = "validate" => ReturnedBefore(c, "track", i)
            /\ trace[i].op = "publishEvent" =>
                 ReturnedBefore(c, "validate", i)

\* A call that went through all five stages and returned a decision
C1_Witness ==
  \E c \in Evaluations :
    /\ HasDecision(c)
    /\ \A adapter \in {"evaluatePolicy", "getCostMetrics", "getForecast",
                       "track", "validate", "publishEvent"} :
         Cardinality(CallsOf(c, adapter)) = 1

(* C2: a returned decision's allowed equals its policyResults.allowed and  *)
(* both equal the allowed value the policy adapter returned for that call. *)
C2_VerdictIsPolicyVerdict ==
  \A c \in Evaluations :
    HasDecision(c) =>
      /\ DecisionOf(c).allowed = DecisionOf(c).policyResults.allowed
      /\ \A o \in OutcomesOf(c, "evaluatePolicy") :
           /\ o.kind = "resolve"
           /\ IsSome(o.value.data)
           /\ DecisionOf(c).allowed = Get(o.value.data).allowed

\* A policy that allows, met with failing cost retrieval, a failing track
\* envelope and a failing publish envelope: the verdict is still "allowed"
C2_Witness ==
  \E c \in Evaluations :
    /\ HasDecision(c)
    /\ DecisionOf(c).allowed
    /\ DecisionOf(c).costImpact = None
    /\ \E o \in OutcomesOf(c, "track") : ~o.value.success
    /\ \E o \in OutcomesOf(c, "publishEvent") : ~o.value.success

(* C3: for a returned decision exactly one event was published to the      *)
(* dashboard for that call; its severity is "info" when the decision       *)
(* allows and "warning" when it denies, and the outcome in its details is  *)
(* "allowed" exactly when the decision allows and "denied" otherwise.      *)
C3_OnePublishedEventMatchesVerdict ==
  \A c \in Evaluations :
    HasDecision(c) =>
      /\ Cardinality(CallsOf(c, "publishEvent")) = 1
      /\ \A i \in CallsOf(c, "publishEvent") :
           LET event == frames[c].trace[i].arg
           IN IF DecisionOf(c).allowed
              THEN /\ event.severity = "info"
                   /\ event.details.outcome = "allowed"
              ELSE /\ event.severity = "warning"
                   /\ event.details.outcome = "denied"

\* A denying decision, published as a warning
C3_Witness ==
  \E c \in Evaluations :
    /\ HasDecision(c)
    /\ ~DecisionOf(c).allowed
    /\ \E i \in CallsOf(c, "publishEvent") :
         frames[c].trace[i].arg.severity = "warning"

\* An envelope that reports failure or carries no data
FailureEnvelope(o) ==
  o.kind = "resolve" /\ (~o.value.success \/ o.value.data = None)

\* A validation that did not pass: failure, no data, or valid = false
ValidationRefused(o) ==
  /\ o.kind = "resolve"
  /\ \/ ~o.value.success
     \/ o.value.data = None
     \/ ~Get(o.value.data).valid

OtherAdapters ==
  {"getCostMetrics", "getForecast", "track", "validate", "publishEvent"}

(* C4: when the policy adapter reports failure or returns no data,         *)
(* evaluateGovernance fails with an error carrying the adapter's message,  *)
(* or "Policy evaluation failed" when it gave none, returns no decision    *)
(* and calls none of the cost, analytics, schema and dashboard adapters.   *)
C4_PolicyFailureIsFatal ==
  \A c \in Evaluations :
    \A o \in OutcomesOf(c, "evaluatePolicy") :
      FailureEnvelope(o) =>
        /\ HasError(c)
        /\ Get(frames[c].result).message =
             "Governance evaluation failed: "
               \o (IF o.value.error \in {Undefined, ""}
                   THEN "Policy evaluation failed"
                   ELSE o.value.error)
        /\ \A adapter \in OtherAdapters : CallsOf(c, adapter) = {}

\* The policy adapter reports failure although it sends a payload
C4_Witness ==
  \E c \in Evaluations :
    /\ HasError(c)
    /\ \E o \in OutcomesOf(c, "evaluatePolicy") :
         /\ FailureEnvelope(o)
         /\ o.value.data # None
         /\ o.value.error = "stale policy"

\* The cost step of evaluateGovernance has failed: Promise.all rejected, or
\* it resolved with an envelope that fails or has no data.
CostFailure(o) == o.kind \in {"reject", "throw"} \/ FailureEnvelope(o)
CostStepFailed(c) ==
  LET metrics == OutcomesOf(c, "getCostMetrics")
      forecast == OutcomesOf(c, "getForecast")
  IN \/ \E o \in metrics \cup forecast : o.kind \in {"reject", "throw"}
     \/ /\ metrics # {} /\ forecast # {}
        /\ \E o \in metrics \cup forecast : CostFailure(o)

\* emitAuditSignal has returned without throwing
AuditEmitted(c) ==
  /\ \E o \in OutcomesOf(c, "validate") :
       o.kind = "resolve" /\ ~ValidationRefused(o)
  /\ \E o \in OutcomesOf(c, "publishEvent") : o.kind = "resolve"

(* C5: when the cost adapter fails in any way (failure envelope, missing   *)
(* data or a rejection, of getCostMetrics or of getForecast),              *)
(* evaluateGovernance goes on: the analytics event is sent and costImpact  *)
(* stays absent; and when audit emission then succeeds, the call returns a *)
(* decision without costImpact, with track, validate and publishEvent each *)
(* called once.                                                            *)
C5_CostFailureIsNotFatal ==
  \A c \in Evaluations :
    CostStepFailed(c) =>
      /\ Cardinality(CallsOf(c, "track")) = 1
      /\ frames[c].costImpact = None
      /\ (frames[c].pc = "done" /\ AuditEmitted(c)) =>
           /\ HasDecision(c)
           /\ DecisionOf(c).costImpact = None
           /\ Cardinality(CallsOf(c, "validate")) = 1
           /\ Cardinality(CallsOf(c, "publishEvent")) = 1

\* getForecast rejected while getCostMetrics delivered: a decision without
\* costImpact
C5_Witness ==
  \E c \in Evaluations :
    /\ HasDecision(c)
    /\ DecisionOf(c).costImpact = None
    /\ \E o \in OutcomesOf(c, "getForecast") : o.kind = "reject"
    /\ \E o \in OutcomesOf(c, "getCostMetrics") : ~CostFailure(o)

\* Audit emission has failed: validation refused or rejected, or the
\* dashboard call rejected.
AuditFailed(c) ==
  \/ \E o \in OutcomesOf(c, "validate") :
       o.kind = "reject" \/ ValidationRefused(o)
  \/ \E o \in OutcomesOf(c, "publishEvent") : o.kind = "reject"

(* C6: when audit emission fails inside evaluateGovernance (validation     *)
(* reports failure or valid = false, or the schema or dashboard call       *)
(* rejects), evaluateGovernance fails and returns no decision.             *)
C6_AuditFailureIsFatal ==
  \A c \in Evaluations : AuditFailed(c) => HasError(c)

\* Policy, cost and analytics all succeeded, the dashboard call rejected
C6_Witness ==
  \E c \in Evaluations :
    /\ HasError(c)
    /\ frames[c].costImpact # None
    /\ \E o \in OutcomesOf(c, "track") : o.kind = "resolve" /\ o.value.success
    /\ \E o \in OutcomesOf(c, "publishEvent") : o.kind = "reject"

(* C7: in emitAuditSignal (called directly or by evaluateGovernance)       *)
(* publishEvent is called only after validate('audit.signal.v1', signal)   *)
(* has returned success = true with valid = true for the signal that is    *)
(* published; when validation reports failure, returns no data or returns  *)
(* valid = false, the operation fails and publishEvent is never called.    *)
C7_PublishOnlyAfterValidation ==
  \A c \in Evaluations \cup Emissions :
    LET trace == frames[c].trace
    IN /\ \A i \in CallsOf(c, "publishEvent") :
            /\ \E j \in ReturnsOf(c, "validate") :
                 /\ j < i
                 /\ trace[j].outcome.kind = "resolve"
                 /\ trace[j].outcome.value.success
                 /\ trace[j].outcome.value.data # None
                 /\ Get(trace[j].outcome.value.data).valid
            /\ \E j \in CallsOf(c, "validate") :
                 /\ j < i
                 /\ trace[j].arg.schemaId = "audit.signal.v1"
                 /\ trace[j].arg.data = trace[i].arg.details
       /\ \A o \in OutcomesOf(c, "validate") :
            ValidationRefused(o) =>
              /\ HasError(c)
              /\ CallsOf(c, "publishEvent") = {}

\* A direct emitAuditSignal whose signal the registry finds invalid
C7_Witness ==
  \E c \in Emissions :
    /\ HasError(c)
    /\ CallsOf(c, "publishEvent") = {}
    /\ \E o \in OutcomesOf(c, "validate") :
         /\ o.kind = "resolve" /\ o.value.success
         /\ o.value.data # None /\ ~Get(o.value.data).valid

(* C8: a failure reported by dashboard.publishEvent (success = false in    *)
(* its envelope) is fatal: emitAuditSignal fails with an "Audit signal     *)
(* emission failed" error and evaluateGovernance returns no decision.      *)
C8_PublishFailureIsFatal ==
  /\ \A c \in Emissions :
       \A o \in OutcomesOf(c, "publishEvent") :
         (o.kind = "resolve" /\ ~o.value.success) =>
           /\ HasError(c)
           /\ \E cause \in {o.value.error, "Unknown error"} :
                Get(frames[c].result).message =
                  "Audit signal emission failed: " \o cause
  /\ \A c \in Evaluations :
       \A o \in OutcomesOf(c, "publishEvent") :
         (o.kind = "resolve" /\ ~o.value.success) => HasError(c)

(* C10: a returned decision's auditId is "audit-" + request.requestId +    *)
(* "-" + N, N being the decimal form of the clock value read when the id   *)
(* was generated.                                                          *)
C10_AuditIdFormat ==
  \A c \in Evaluations :
    HasDecision(c) =>
      LET trace == frames[c].trace
          reads == {i \in 1..Len(trace) : trace[i].kind = "clock"}
      IN /\ Cardinality(reads) = 1
         /\ \A i \in reads :
              DecisionOf(c).auditId =
                "audit-" \o Get(frames[c].input).requestId
                         \o "-" \o ToString(trace[i].value)

\* A decision whose id was generated after the clock had advanced
C10_Witness ==
  \E c \in Evaluations :
    /\ HasDecision(c)
    /\ DecisionOf(c).auditId = "audit-req-2-1"

----------------------------------------------------------------------------
(* Comparing two invocations (SpecPair) *)

\* Both invocations have completed.
BothDone(a, b) == frames[a].pc = "done" /\ frames[b].pc = "done"

\* The two invocations had the same request and the same answers from the
\* policy, cost, schema and dashboard adapters.
SameButTrack(a, b) ==
  /\ IsSome(script[a]) /\ IsSome(script[b])
  /\ [Get(script[a]) EXCEPT !.track = Ok] = [Get(script[b]) EXCEPT !.track = Ok]

\* The clock values read for the audit id by frame c
IdTimes(c) ==
  {frames[c].trace[i].value :
     i \in {j \in 1..Len(frames[c].trace) : frames[c].trace[j].kind = "clock"}}

\* The two invocations did not generate their audit ids at different times.
SameIdTime(a, b) ==
  IdTimes(a) = {} \/ IdTimes(b) = {} \/ IdTimes(a) = IdTimes(b)

TrackRejected(c) == Get(script[c]).track.kind = "reject"

(* C9 as stated: for the same request and the same policy, cost, schema    *)
(* and dashboard answers, evaluateGovernance returns the same decision     *)
(* whether track succeeds, reports failure in its envelope, or rejects.    *)
C9_TrackNeverAffectsResult ==
  \A a, b \in Calls :
    (/\ BothDone(a, b) /\ SameButTrack(a, b) /\ SameIdTime(a, b)
     /\ HasDecision(a)) =>
      frames[a].result = frames[b].result

(* C9 as amended: for the same request and the same policy, cost, schema   *)
(* and dashboard answers, evaluateGovernance gives the same result whether *)
(* track succeeds or reports failure in its envelope; when track rejects,  *)
(* evaluateGovernance fails and returns no decision.                       *)
C9_TrackEnvelopeNeverAffectsResult ==
  \A a, b \in Calls :
    /\ (/\ BothDone(a, b) /\ SameButTrack(a, b) /\ SameIdTime(a, b)
        /\ ~TrackRejected(a) /\ ~TrackRejected(b)) =>
         frames[a].result = frames[b].result
    /\ (frames[a].pc = "done" /\ TrackRejected(a)
        /\ ReturnsOf(a, "track") # {}) => HasError(a)

\* Two decisions, equal, one after track succeeded and one after track
\* reported failure
C9_Witness ==
  \E a, b \in Calls :
    /\ HasDecision(a) /\ HasDecision(b)
    /\ SameButTrack(a, b)
    /\ Get(script[a]).track = Ok
    /\ Get(script[b]).track.kind = "resolve"
    /\ ~Get(script[b]).track.value.success
    /\ frames[a].result = frames[b].result

----------------------------------------------------------------------------
(* Reading the history of resolveRBAC *)

Resolutions == {c \in Calls : frames[c].op = "resolveRBAC"}

HasContext(c) ==
  /\ frames[c].pc = "done"
  /\ Get(frames[c].result).kind = "context"
ContextOf(c) == Get(frames[c].result)

Range(list) == {list[i] : i \in 1..Len(list)}

\* The positions in frame c's trace where the lookup of `slot` came back
SlotReturns(c, slot) ==
  {i \in ReturnsOf(c, "getConfig") : frames[c].trace[i].slot = slot}
SlotOutcomes(c, slot) ==
  {frames[c].trace[i].outcome : i \in SlotReturns(c, slot)}

\* The lookups issued for the roles, as slots
RoleSlots(c) ==
  {frames[c].trace[i].slot : i \in CallsOf(c, "getConfig")} \ {RolesSlot}

\* The permissions a lookup has delivered: those of a successful envelope
\* whose value has a permissions list, none otherwise
Granted(o) ==
  IF /\ o.kind = "resolve" /\ o.value.success /\ o.value.data # None
     /\ ~Get(o.value.data).value.isNull
     /\ Get(o.value.data).value.permissions # None
  THEN Range(Get(Get(o.value.data).value.permissions))
  ELSE {}

(* C11: for every resolveRBAC call that returns a context, permissions has *)
(* no duplicate entries, holds exactly the union of the permission lists   *)
(* delivered by the role lookups, and is empty when roles is empty.        *)
C11_PermissionsAreDeduplicatedUnion ==
  \A c \in Resolutions :
    HasContext(c) =>
      LET permissions == ContextOf(c).permissions
      IN /\ \A i, j \in 1..Len(permissions) :
              permissions[i] = permissions[j] => i = j
         /\ Range(permissions) =
              UNION {Granted(o) : o \in UNION {SlotOutcomes(c, slot) :
                                                slot \in RoleSlots(c)}}
         /\ ContextOf(c).roles = <<>> => permissions = <<>>

\* Two roles whose permission lists overlap: three permissions, each once
C11_Witness ==
  \E c \in Resolutions :
    /\ HasContext(c)
    /\ ContextOf(c).roles = <<"admin", "developer">>
    /\ Granted(CHOOSE o \in SlotOutcomes(c, Slot(1)) : TRUE) =
         {"read", "write", "delete"}
    /\ Granted(CHOOSE o \in SlotOutcomes(c, Slot(2)) : TRUE) =
         {"read", "write"}
    /\ ContextOf(c).permissions = <<"read", "write", "delete">>

\* The roles lookup gave no roles: a failure envelope, no data, a null
\* value or a value without a roles list
NoRoles(o) ==
  \/ FailureEnvelope(o)
  \/ /\ o.kind = "resolve"
     /\ \/ Get(o.value.data).value.isNull
        \/ Get(o.value.data).value.roles = None

(* C12: when the lookup of rbac.roles.<principal> reports failure or gives *)
(* no value, resolveRBAC returns {principal, roles: [], permissions: []},   *)
(* raises no error and issues no rbac.permissions.<role> lookup.           *)
C12_UnknownPrincipalIsEmptyContext ==
  \A c \in Resolutions :
    \A o \in SlotOutcomes(c, RolesSlot) :
      NoRoles(o) =>
        /\ HasContext(c)
        /\ ContextOf(c) = [kind |-> "context",
                           principal |-> Get(frames[c].input),
                           roles |-> <<>>, permissions |-> <<>>]
        /\ RoleSlots(c) = {}
        /\ \A i \in CallsOf(c, "getConfig") :
             frames[c].trace[i].arg = RolesKey(Get(frames[c].input))

\* The roles lookup reports failure although it sends a list of roles
C12_Witness ==
  \E c \in Resolutions :
    /\ HasContext(c)
    /\ ContextOf(c).principal = "mallory"
    /\ \E o \in SlotOutcomes(c, RolesSlot) :
         /\ o.kind = "resolve" /\ ~o.value.success
         /\ o.value.data # None
         /\ o.value.error = "stale config"

\* What the lookups issued for the roles have returned so far
RoleOutcomes(c) == UNION {SlotOutcomes(c, slot) : slot \in RoleSlots(c)}

\* A per-role lookup that delivered nothing: failure envelope, no data, or
\* (LookupRaised) a rejection
LookupEmpty(o) == FailureEnvelope(o)
LookupRaised(o) == o.kind = "reject"

(* C13 as stated: a per-role permission lookup that returns a failure      *)
(* envelope, returns no data, or raises never fails resolveRBAC: the       *)
(* operation returns a context whose permissions are the union over the    *)
(* roles whose lookups succeeded.                                          *)
C13_RoleLookupFailureNeverFails ==
  \A c \in Resolutions :
    (\E o \in RoleOutcomes(c) : LookupEmpty(o) \/ LookupRaised(o)) =>
      /\ ~HasError(c)
      /\ HasContext(c) =>
           Range(ContextOf(c).permissions) =
             UNION {Granted(o) : o \in RoleOutcomes(c)}

(* C13 as amended: a per-role lookup that returns a failure envelope or no *)
(* data contributes no permission and does not fail resolveRBAC: when      *)
(* every lookup has resolved, the operation returns a context whose        *)
(* permissions are the union over the lookups that succeeded.  A per-role  *)
(* lookup that raises fails resolveRBAC with "RBAC resolution failed:      *)
(* <cause>".                                                               *)
C13_RoleLookupEnvelopeFailureIsEmpty ==
  \A c \in Resolutions :
    /\ (/\ RoleSlots(c) # {}
        /\ frames[c].inflight = {}
        /\ \A o \in RoleOutcomes(c) : ~LookupRaised(o)) =>
         /\ HasContext(c)
         /\ Range(ContextOf(c).permissions) =
              UNION {Granted(o) : o \in RoleOutcomes(c)}
    /\ (\E o \in RoleOutcomes(c) : LookupRaised(o)) =>
         /\ HasError(c)
         /\ \E o \in RoleOutcomes(c) :
              /\ LookupRaised(o)
              /\ Get(frames[c].result).message =
                   "RBAC resolution failed: " \o CauseOf(o.thrown)

\* The lookup for admin reports failure, the one for developer delivers:
\* the context has the permissions of developer alone
C13_Witness ==
  \E c \in Resolutions :
    /\ HasContext(c)
    /\ ContextOf(c).roles = <<"admin", "developer">>
    /\ \E o \in SlotOutcomes(c, Slot(1)) :
         LookupEmpty(o) /\ ~o.value.success
    /\ \E o \in SlotOutcomes(c, Slot(2)) : Granted(o) = {"read", "write"}
    /\ ContextOf(c).permissions = <<"read", "write">>

----------------------------------------------------------------------------
(* Comparing two invocations of resolveRBAC (SpecOrder) *)

\* The order in which the lookups of frame c have come back, as the
\* sequence of their slots
RECURSIVE CompletionOrder(_, _)
CompletionOrder(c, n) ==
  IF n = 0 THEN <<>>
  ELSE LET event == frames[c].trace[n]
       IN IF event.kind = "return" /\ event.slot # RolesSlot
          THEN Append(CompletionOrder(c, n - 1), event.slot)
          ELSE CompletionOrder(c, n - 1)
Completions(c) == CompletionOrder(c, Len(frames[c].trace))

(* C14: two resolveRBAC calls that get the same configuration values       *)
(* return the same RBACContext (roles and permissions), whatever the order *)
(* in which their per-role lookups complete.                               *)
C14_ResultIndependentOfCompletionOrder ==
  \A a, b \in Resolutions :
    (/\ script[a] = script[b]
     /\ HasContext(a)
     /\ frames[b].pc = "done") =>
      frames[a].result = frames[b].result

\* Two contexts, equal, after the lookups for admin and developer came
\* back in opposite orders with different permission lists
C14_Witness ==
  \E a, b \in Resolutions :
    /\ HasContext(a) /\ HasContext(b)
    /\ script[a] = script[b]
    /\ Completions(a) = <<Slot(1), Slot(2)>>
    /\ Completions(b) = <<Slot(2), Slot(1)>>
    /\ ContextOf(a).permissions = <<"read", "write", "delete", "deploy">>
    /\ frames[a].result = frames[b].result

----------------------------------------------------------------------------
(* Reading the history of getFinOpsSummary *)

Summaries == {c \in Calls : frames[c].op = "getFinOpsSummary"}

HasSummary(c) ==
  /\ frames[c].pc = "done"
  /\ Get(frames[c].result).kind = "summary"
SummaryOf(c) == Get(frames[c].result).value

\* An envelope with success = true and data
Delivered(o) == o.kind = "resolve" /\ o.value.success /\ o.value.data # None

\* The message an envelope without payload gives rise to
EnvelopeCause(o, default) ==
  IF o.value.error \in {Undefined, ""} THEN default ELSE o.value.error

(* C15: getFinOpsSummary returns a summary only when getCostMetrics and    *)
(* getForecast both returned success = true with data; when either         *)
(* reports failure or has no data it returns no summary and fails with     *)
(* "FinOps summary failed: <cause>", the cause being the adapter's message *)
(* or the default of the failing query (the metrics query first).          *)
C15_SummaryNeedsBothPayloads ==
  \A c \in Summaries :
    LET metrics == OutcomesOf(c, "getCostMetrics")
        forecast == OutcomesOf(c, "getForecast")
        raised == \E o \in metrics \cup forecast : o.kind # "resolve"
    IN /\ HasSummary(c) =>
            /\ metrics # {} /\ \A o \in metrics : Delivered(o)
            /\ forecast # {} /\ \A o \in forecast : Delivered(o)
       /\ (/\ metrics # {} /\ forecast # {}
           /\ \E o \in metrics \cup forecast : FailureEnvelope(o)) =>
            /\ HasError(c)
            /\ \E cause \in
                   {EnvelopeCause(o, "Failed to get cost metrics") :
                      o \in {m \in metrics : FailureEnvelope(m)}}
                   \cup {EnvelopeCause(o, "Failed to get cost forecast") :
                           o \in {f \in forecast : FailureEnvelope(f)
                                     /\ \A m \in metrics : Delivered(m)}}
                   \cup {CauseOf(o.thrown) :
                           o \in {r \in metrics \cup forecast :
                                     r.kind # "resolve"}} :
                 Get(frames[c].result).message =
                   "FinOps summary failed: " \o cause

\* The metrics arrive, the forecast envelope has success = true and no data
C15_Witness ==
  \E c \in Summaries :
    /\ HasError(c)
    /\ \E o \in OutcomesOf(c, "getCostMetrics") : Delivered(o)
    /\ \E o \in OutcomesOf(c, "getForecast") :
         o.kind = "resolve" /\ o.value.success /\ o.value.data = None
    /\ Get(frames[c].result).message =
         "FinOps summary failed: Failed to get cost forecast"

\* The summaries produced: those returned by getFinOpsSummary and those
\* attached to a decision as costImpact, with the frame that produced them
ProducedSummaries ==
  {<<c, SummaryOf(c)>> : c \in {s \in Summaries : HasSummary(s)}}
  \cup {<<c, Get(frames[c].costImpact)>> :
          c \in {e \in Evaluations : frames[e].costImpact # None}}

(* C16: in every summary currentCost is the totalCost of the metrics and   *)
(* forecast the projectedCost of the forecast, and budgetStatus is         *)
(* "exceeded" when forecast > 1.5 * currentCost, else "warning" when       *)
(* forecast > 1.2 * currentCost, else "within"; both comparisons are       *)
(* strict (100/150 is "warning", 100/120 is "within"), and 100/110 is      *)
(* "within", 100/125 "warning", 100/160 "exceeded".                        *)
C16_BudgetStatusRule ==
  \A p \in ProducedSummaries :
    LET c == p[1]
        summary == p[2]
        cost == summary.currentCost
        forecast == summary.forecast
    IN /\ \E o \in OutcomesOf(c, "getCostMetrics") :
            Delivered(o) /\ Get(o.value.data).totalCost = cost
       /\ \E o \in OutcomesOf(c, "getForecast") :
            Delivered(o) /\ Get(o.value.data).projectedCost = forecast
       /\ summary.budgetStatus =
            (IF 2 * forecast > 3 * cost THEN "exceeded"
             ELSE IF 5 * forecast > 6 * cost THEN "warning"
             ELSE "within")
       /\ cost = 100 =>
            summary.budgetStatus =
              (CASE forecast \in {0, 110, 120} -> "within"
                 [] forecast \in {125, 150} -> "warning"
                 [] forecast = 160 -> "exceeded")

\* A forecast of exactly 1.5 times the cost: "warning"
C16_Witness ==
  \E c \in Summaries :
    /\ HasSummary(c)
    /\ SummaryOf(c) = [resourceId |-> "res-2", currentCost |-> 100,
                       forecast |-> 150, budgetStatus |-> "warning"]

----------------------------------------------------------------------------
(* Calls in flight *)

\* Position i of frame c's trace is the call of a cost query that has not
\* come back before position n.
OutstandingAt(c, i, n) ==
  /\ i \in CallsOf(c, "getCostMetrics") \cup CallsOf(c, "getForecast")
  /\ i < n
  /\ ~\E j \in ReturnsOf(c, frames[c].trace[i].op) : i < j /\ j < n

(* C17: both fan-outs wait for all their sub-calls, also when one of them  *)
(* raises before the others finish: no adapter call started by an          *)
(* operation is still in flight once the operation has completed, and      *)
(* evaluateGovernance never calls track while a cost query is in flight.   *)
C17_FanOutsWaitForAll ==
  \A c \in Calls :
    /\ frames[c].pc = "done" => frames[c].inflight = {}
    /\ \A n \in CallsOf(c, "track") :
         \A i \in 1..Len(frames[c].trace) : ~OutstandingAt(c, i, n)

----------------------------------------------------------------------------
(* Reading the history of a handler *)

Handled(handler) == {c \in Calls : frames[c].via = handler}
RawOf(c) == Get(frames[c].raw)

\* A property that is missing, not a string, or empty
MissingOrEmpty(v) == v.type # "string" \/ v.str = ""

\* A property the handler refuses as a string: missing, not a string,
\* empty, or of white space alone
Unfit(v) == MissingOrEmpty(v) \/ v.str \in Blank

\* A property that is present but is null, an array or no object
NoMapping(v) == v.type \notin {"undefined", "object"}

\* The handler has thrown without invoking the core: no adapter was called
RefusedAtBoundary(c) ==
  /\ HasError(c)
  /\ frames[c].delegated = <<>>
  /\ frames[c].trace = <<>>

\* The first of `names` that value holds no fit string for, or 0
FirstUnfit(value, names) ==
  LET unfit == {k \in 1..Len(names) : Unfit(Prop(value, names[k]))}
  IN IF unfit = {} THEN 0 ELSE CHOOSE k \in unfit : \A j \in unfit : k <= j

RequestFields == <<"requestId", "resourceId", "action", "principal">>

(* C18: handleGovernanceRequest refuses, before the core is invoked and    *)
(* any adapter called, a request whose requestId, resourceId, action or    *)
(* principal is missing, not a string or empty, and one whose context is   *)
(* present but null, an array or no object; the error names the first      *)
(* offending field in the order requestId, resourceId, action, principal,  *)
(* context.  A request that passes is handed to evaluateGovernance exactly *)
(* once.                                                                   *)
C18_RequestValidatedAtBoundary ==
  \A c \in Handled("handleGovernanceRequest") :
    LET request == RawOf(c)
        first == FirstUnfit(request, RequestFields)
        context == Prop(request, "context")
    IN /\ request.type # "object" => RefusedAtBoundary(c)
       /\ (\/ \E k \in 1..Len(RequestFields) :
                MissingOrEmpty(Prop(request, RequestFields[k]))
           \/ NoMapping(context)) => RefusedAtBoundary(c)
       /\ (request.type = "object" /\ first # 0) =>
            /\ RefusedAtBoundary(c)
            /\ Get(frames[c].result).message =
                 "Invalid request: " \o RequestFields[first]
                   \o " must be a non-empty string"
       /\ (request.type = "object" /\ first = 0 /\ NoMapping(context)) =>
            /\ RefusedAtBoundary(c)
            /\ Get(frames[c].result).message =
                 "Invalid request: context must be an object if provided"
       /\ (request.type = "object" /\ first = 0 /\ ~NoMapping(context)) =>
            /\ Len(frames[c].delegated) = 1
            /\ frames[c].delegated[1].op = "evaluateGovernance"
            /\ frames[c].delegated[1].arg.requestId =
                 Prop(request, "requestId").str
            /\ frames[c].delegated[1].arg.principal =
                 Prop(request, "principal").str
            /\ Cardinality(CallsOf(c, "evaluatePolicy")) = 1

\* A request whose resourceId is empty and whose requestId is missing is
\* refused for its requestId
C18_Witness ==
  \E c \in Handled("handleGovernanceRequest") :
    /\ RefusedAtBoundary(c)
    /\ Prop(RawOf(c), "requestId") = JsUndefined
    /\ Prop(RawOf(c), "resourceId") = JsString("")
    /\ Get(frames[c].result).message =
         "Invalid request: requestId must be a non-empty string"

SignalFields == <<"timestamp", "action", "principal", "resource", "outcome">>

(* C19: handleAuditEmission refuses, before emitAuditSignal is invoked and *)
(* the schema or dashboard adapter called, a signal whose timestamp,       *)
(* action, principal, resource or outcome is missing, not a string or      *)
(* empty, and one whose metadata is present but is no plain mapping; a     *)
(* signal that passes is handed to emitAuditSignal exactly once.           *)
C19_SignalValidatedAtBoundary ==
  \A c \in Handled("handleAuditEmission") :
    LET signal == RawOf(c)
        first == FirstUnfit(signal, SignalFields)
        metadata == Prop(signal, "metadata")
    IN /\ (\/ signal.type # "object"
           \/ \E k \in 1..Len(SignalFields) :
                MissingOrEmpty(Prop(signal, SignalFields[k]))
           \/ NoMapping(metadata)) =>
            /\ RefusedAtBoundary(c)
            /\ CallsOf(c, "validate") = {} /\ CallsOf(c, "publishEvent") = {}
       /\ (signal.type = "object" /\ first = 0 /\ ~NoMapping(metadata)) =>
            /\ Len(frames[c].delegated) = 1
            /\ frames[c].delegated[1].op = "emitAuditSignal"
            /\ \A k \in 1..Len(SignalFields) :
                 frames[c].delegated[1].arg[SignalFields[k]] =
                   Prop(signal, SignalFields[k]).str
            /\ Cardinality(CallsOf(c, "validate")) = 1
            /\ \A i \in CallsOf(c, "validate") :
                 frames[c].trace[i].arg.data = frames[c].delegated[1].arg

\* A signal whose strings are fit and whose metadata is an array is refused
\* for its metadata
C19_Witness ==
  \E c \in Handled("handleAuditEmission") :
    /\ RefusedAtBoundary(c)
    /\ FirstUnfit(RawOf(c), SignalFields) = 0
    /\ Prop(RawOf(c), "metadata") = JsArray(<<>>)
    /\ Get(frames[c].result).message =
         "Invalid audit signal: metadata must be an object if provided"

----------------------------------------------------------------------------
(* Counting calls *)

Adapters ==
  {"evaluatePolicy", "getCostMetrics", "getForecast", "track", "validate",
   "publishEvent"}

\* The calls of getConfig that frame c made for `slot`
SlotCalls(c, slot) ==
  {i \in CallsOf(c, "getConfig") : frames[c].trace[i].slot = slot}

(* C20: no adapter call is retried, whatever fails: an invocation of       *)
(* evaluateGovernance, getFinOpsSummary or emitAuditSignal calls each of   *)
(* evaluatePolicy, getCostMetrics, getForecast, track, validate and        *)
(* publishEvent at most once, and an invocation of resolveRBAC calls       *)
(* getConfig once for the roles key and at most once for each entry of the *)
(* roles list, with that entry's permissions key.                          *)
C20_NoRetry ==
  \A c \in Calls :
    /\ \A adapter \in Adapters : Cardinality(CallsOf(c, adapter)) <= 1
    /\ c \in Summaries =>
         \A adapter \in Adapters \ {"getCostMetrics", "getForecast"} :
           CallsOf(c, adapter) = {}
    /\ c \in Emissions =>
         \A adapter \in Adapters \ {"validate", "publishEvent"} :
           CallsOf(c, adapter) = {}
    /\ c \in Resolutions =>
         /\ Cardinality(SlotCalls(c, RolesSlot)) = 1
         /\ \A i \in SlotCalls(c, RolesSlot) :
              frames[c].trace[i].arg = RolesKey(Get(frames[c].input))
         /\ Cardinality(CallsOf(c, "getConfig")) <= 1 + Len(frames[c].roles)
         /\ \A slot \in RoleSlots(c) :
              /\ Cardinality(SlotCalls(c, slot)) = 1
              /\ \E k \in 1..Len(frames[c].roles) :
                   /\ slot = Slot(k)
                   /\ \A i \in SlotCalls(c, slot) :
                        frames[c].trace[i].arg =
                          PermissionsKey(frames[c].roles[k])
    /\ c \notin Resolutions => CallsOf(c, "getConfig") = {}

\* An evaluation that lost its cost data and then failed at the dashboard,
\* having called every adapter once
C20_Witness ==
  \E c \in Evaluations :
    /\ HasError(c)
    /\ \E o \in OutcomesOf(c, "getCostMetrics") : o.kind = "reject"
    /\ \E o \in OutcomesOf(c, "publishEvent") : o.kind = "reject"
    /\ \A adapter \in Adapters : Cardinality(CallsOf(c, adapter)) = 1

----------------------------------------------------------------------------
(* Concurrent invocations (SpecConcurrent) *)

IsCall(e) == e.kind = "call"
IsAnswer(e) == e.kind # "call"

\* The calls frame c has issued, and what has come back to it (the answers
\* to its calls and its readings of the clock), each in order
Issued(c) == SelectSeq(frames[c].trace, IsCall)
Received(c) == SelectSeq(frames[c].trace, IsAnswer)

\* The clock reading with which an evaluation stamped its audit signal
Stamped(c) ==
  IF frames[c].op = "evaluateGovernance" /\ IsSome(frames[c].signal)
  THEN Some(Get(frames[c].signal).timestamp)
  ELSE None

\* Two invocations of the same operation with the same argument, to which
\* the same answers have come back
SameHistory(a, b) ==
  /\ frames[a].op = frames[b].op
  /\ frames[a].input = frames[b].input
  /\ Received(a) = Received(b)
  /\ Stamped(a) = Stamped(b)

\* The policy payloads that frame c itself was given
OwnPolicy(c) ==
  {Get(o.value.data) :
     o \in {r \in OutcomesOf(c, "evaluatePolicy") : Delivered(r)}}

\* The calls and the result of frame c carry its own argument and the
\* verdict it was given itself.
OwnEvaluation(c) ==
  LET request == Get(frames[c].input)
      trace == frames[c].trace
      verdict(allowed) == \E p \in OwnPolicy(c) : p.allowed = allowed
  IN /\ \A i \in 1..Len(trace) :
          trace[i].kind = "call" =>
            LET arg == trace[i].arg
            IN CASE trace[i].op = "evaluatePolicy" ->
                      /\ arg.principal = request.principal
                      /\ arg.action = request.action
                      /\ arg.resource = request.resourceId
                 [] trace[i].op \in {"getCostMetrics", "getForecast"} ->
                      arg.services = <<request.resourceId>>
                 [] trace[i].op = "track" ->
                      /\ arg.properties.requestId = request.requestId
                      /\ arg.userId = request.principal
                      /\ verdict(arg.properties.allowed)
                 [] trace[i].op = "validate" ->
                      /\ arg.data.metadata.requestId = request.requestId
                      /\ verdict(arg.data.outcome = "allowed")
                 [] trace[i].op = "publishEvent" ->
                      /\ arg.details.metadata.requestId = request.requestId
                      /\ verdict(arg.details.outcome = "allowed")
     /\ HasDecision(c) =>
          /\ DecisionOf(c).requestId = request.requestId
          /\ \E p \in OwnPolicy(c) :
               /\ DecisionOf(c).allowed = p.allowed
               /\ DecisionOf(c).policyResults.reasons = p.reasons
               /\ DecisionOf(c).policyResults.policies = p.appliedPolicies

OwnResolution(c) ==
  /\ \A i \in CallsOf(c, "getConfig") :
       frames[c].trace[i].arg \in
         {RolesKey(Get(frames[c].input))}
         \cup {PermissionsKey(role) : role \in Range(frames[c].roles)}
  /\ HasContext(c) => ContextOf(c).principal = Get(frames[c].input)

OwnSummary(c) ==
  /\ \A i \in CallsOf(c, "getCostMetrics") \cup CallsOf(c, "getForecast") :
       frames[c].trace[i].arg.services = <<Get(frames[c].input)>>
  /\ HasSummary(c) => SummaryOf(c).resourceId = Get(frames[c].input)

OwnEmission(c) ==
  /\ \A i \in CallsOf(c, "validate") :
       frames[c].trace[i].arg.data = Get(frames[c].input)
  /\ \A i \in CallsOf(c, "publishEvent") :
       frames[c].trace[i].arg.details = Get(frames[c].input)

(* C21: concurrent invocations on one instance do not interfere.  In every *)
(* interleaving of two invocations (evaluateGovernance, resolveRBAC,       *)
(* getFinOpsSummary, emitAuditSignal), the calls an invocation issues and  *)
(* its result carry its own argument and the answers to its own calls; two *)
(* invocations with the same argument to which the same answers came back  *)
(* have issued the same calls and have the same result; and the adapter    *)
(* collection of the instance is the one it was constructed with.          *)
C21_ConcurrentCallsDoNotInterfere ==
  /\ adapters = AdapterCollection
  /\ \A c \in Evaluations : OwnEvaluation(c)
  /\ \A c \in Resolutions : OwnResolution(c)
  /\ \A c \in Summaries : OwnSummary(c)
  /\ \A c \in Emissions : OwnEmission(c)
  /\ \A a, b \in Calls :
       SameHistory(a, b) =>
         /\ Issued(a) = Issued(b)
         /\ frames[a].result = frames[b].result

\* Two evaluations of the same request under way at once, one allowed and
\* about to publish, the other denied and still waiting for its cost data
C21_Witness ==
  \E a, b \in Evaluations :
    /\ frames[a].input = frames[b].input
    /\ frames[a].pc = "awaitPublish" /\ frames[b].pc = "awaitCost"
    /\ \E p \in OwnPolicy(a) : p.allowed
    /\ \E p \in OwnPolicy(b) : ~p.allowed

----------------------------------------------------------------------------
(* Errors *)

\* What the calls of frame c to `called` have raised, as the catch reads it
RaisedCauses(c, called) ==
  {CauseOf(o.thrown) :
     o \in {r \in UNION {OutcomesOf(c, adapter) : adapter \in called} :
              r.kind # "resolve"}}

\* The message of a validation that did not pass
RefusalCause(o) ==
  "Audit signal validation failed: "
    \o Join(Messages(IF o.value.data = None THEN <<>>
                     ELSE Get(o.value.data).errors), ", ")

\* The causes frame c has met, by the operation they end
EmissionCauses(c) ==
  RaisedCauses(c, {"validate", "publishEvent"})
  \cup {RefusalCause(o) :
          o \in {r \in OutcomesOf(c, "validate") : ValidationRefused(r)}}
SummaryCauses(c) ==
  RaisedCauses(c, {"getCostMetrics", "getForecast"})
  \cup {EnvelopeCause(o, "Failed to get cost metrics") :
          o \in {r \in OutcomesOf(c, "getCostMetrics") : FailureEnvelope(r)}}
  \cup {EnvelopeCause(o, "Failed to get cost forecast") :
          o \in {r \in OutcomesOf(c, "getForecast") : FailureEnvelope(r)}}
ResolutionCauses(c) == RaisedCauses(c, {"getConfig"})
EvaluationCauses(c) ==
  RaisedCauses(c, {"evaluatePolicy", "track"})
  \cup {EnvelopeCause(o, "Policy evaluation failed") :
          o \in {r \in OutcomesOf(c, "evaluatePolicy") : FailureEnvelope(r)}}
  \cup {"Audit signal emission failed: " \o cause :
          cause \in EmissionCauses(c)}

\* The error of frame c is `prefix`, a colon and one of `causes`.
FailedWith(c, prefix, causes) ==
  \E cause \in causes :
    Get(frames[c].result).message = prefix \o ": " \o cause

(* C22: every error of a core operation carries the operation's prefix,    *)
(* followed by the cause: "Governance evaluation failed: ", "RBAC          *)
(* resolution failed: ", "FinOps summary failed: ", "Audit signal emission *)
(* failed: "; and in evaluateGovernance a failure of the policy step, a    *)
(* track call that raises and a failed audit emission each end the call    *)
(* with one "Governance evaluation failed: <cause>" error, whose cause is  *)
(* never that of the cost step.                                            *)
C22_ErrorsCarryStagePrefix ==
  /\ \A c \in Evaluations :
       /\ HasError(c) =>
            FailedWith(c, "Governance evaluation failed", EvaluationCauses(c))
       /\ EvaluationCauses(c) # {} => HasError(c)
  /\ \A c \in Resolutions :
       HasError(c) =>
         FailedWith(c, "RBAC resolution failed", ResolutionCauses(c))
  /\ \A c \in Summaries :
       HasError(c) => FailedWith(c, "FinOps summary failed", SummaryCauses(c))
  /\ \A c \in Emissions :
       HasError(c) =>
         FailedWith(c, "Audit signal emission failed", EmissionCauses(c))

\* An evaluation that lost its cost data to a rejection and then failed at
\* schema validation: the error names the audit emission, not the cost step
C22_Witness ==
  \E c \in Evaluations :
    /\ \E o \in OutcomesOf(c, "getCostMetrics") : o.kind = "reject"
    /\ HasError(c)
    /\ Get(frames[c].result).message =
         "Governance evaluation failed: Audit signal emission failed: "
           \o "Audit signal validation failed: bad outcome, unknown principal"

----------------------------------------------------------------------------
(* Audit ids of two decisions (SpecConcurrent) *)

\* The clock value read for the audit id of a decision
IdTime(c) == CHOOSE ms \in IdTimes(c) : TRUE

(* C23: audit ids are unique to the millisecond.  Two decisions of         *)
(* evaluateGovernance have different auditIds when their requestIds        *)
(* differ or the clock values read for their ids differ, and the same      *)
(* auditId only when both the requestId and that clock value are the same. *)
C23_AuditIdUniqueToMillisecond ==
  \A a, b \in Evaluations :
    (HasDecision(a) /\ HasDecision(b)) =>
      (DecisionOf(a).auditId = DecisionOf(b).auditId
         <=> /\ Get(frames[a].input).requestId = Get(frames[b].input).requestId
             /\ IdTime(a) = IdTime(b))

\* Two decisions for the same requestId whose ids were generated at
\* different clock values, and so differ
C23_Witness ==
  \E a, b \in Evaluations :
    /\ HasDecision(a) /\ HasDecision(b)
    /\ Get(frames[a].input).requestId = Get(frames[b].input).requestId
    /\ IdTime(a) # IdTime(b)
    /\ DecisionOf(a).auditId # DecisionOf(b).auditId

----------------------------------------------------------------------------
(* The published event *)

(* C24: every event that emitAuditSignal (called directly, through its     *)
(* handler or by evaluateGovernance) hands to publishEvent has eventType   *)
(* "audit.signal", as details the signal that was handed to validate, and  *)
(* severity "warning" exactly when the outcome of the signal is "denied",  *)
(* "info" for any other outcome.                                           *)
C24_PublishedEventMirrorsSignal ==
  \A c \in Evaluations \cup Emissions :
    \A i \in CallsOf(c, "publishEvent") :
      LET event == frames[c].trace[i].arg
      IN /\ event.eventType = "audit.signal"
         /\ Cardinality(CallsOf(c, "validate")) = 1
         /\ \A j \in CallsOf(c, "validate") :
              j < i /\ event.details = frames[c].trace[j].arg.data
         /\ event.severity =
              (IF event.details.outcome = "denied" THEN "warning" ELSE "info")

\* A signal whose outcome is neither "allowed" nor "denied", published as
\* "info"
C24_Witness ==
  \E c \in Emissions :
    \E i \in CallsOf(c, "publishEvent") :
      /\ frames[c].trace[i].arg.details.outcome = "error"
      /\ frames[c].trace[i].arg.severity = "info"

----------------------------------------------------------------------------
(* The analytics event *)

(* C25: an evaluateGovernance call that returns a decision has called      *)
(* analyticsHub.track exactly once, with eventName "governance.evaluation", *)
(* userId the principal of the request, and properties holding the         *)
(* requestId, resourceId, action and principal of the request and, as      *)
(* allowed, the verdict of the policy adapter.                             *)
C25_DecisionTrackedOnce ==
  \A c \in Evaluations :
    HasDecision(c) =>
      /\ Cardinality(CallsOf(c, "track")) = 1
      /\ \A i \in CallsOf(c, "track") :
           LET event == frames[c].trace[i].arg
               request == Get(frames[c].input)
           IN /\ event.eventName = "governance.evaluation"
              /\ event.userId = request.principal
              /\ event.properties.requestId = request.requestId
              /\ event.properties.resourceId = request.resourceId
              /\ event.properties.action = request.action
              /\ event.properties.principal = request.principal
              /\ \A o \in OutcomesOf(c, "evaluatePolicy") :
                   event.properties.allowed = Get(o.value.data).allowed
              /\ event.properties.allowed = DecisionOf(c).allowed

\* A denying decision for bob's request, tracked with allowed = false
C25_Witness ==
  \E c \in Evaluations :
    /\ HasDecision(c)
    /\ \E i \in CallsOf(c, "track") :
         /\ frames[c].trace[i].arg.userId = "bob"
         /\ ~frames[c].trace[i].arg.properties.allowed

----------------------------------------------------------------------------
(* The composition of a decision *)

(* C26: a decision is composed from its own request and adapter results:   *)
(* its requestId is that of the request, policyResults.policies is the     *)
(* appliedPolicies and policyResults.reasons the reasons of the policy     *)
(* payload, unchanged and in order, and costImpact, when present, is the   *)
(* summary of the request's resource: resourceId that of the request,      *)
(* currentCost and forecast those the cost adapter returned, budgetStatus  *)
(* by the budget rule.                                                     *)
C26_DecisionComposedFromOwnResults ==
  \A c \in Evaluations :
    HasDecision(c) =>
      LET decision == DecisionOf(c)
          request == Get(frames[c].input)
      IN /\ decision.requestId = request.requestId
         /\ Cardinality(OutcomesOf(c, "evaluatePolicy")) = 1
         /\ \A o \in OutcomesOf(c, "evaluatePolicy") :
              /\ decision.policyResults.policies =
                   Get(o.value.data).appliedPolicies
              /\ decision.policyResults.reasons = Get(o.value.data).reasons
         /\ decision.costImpact # None =>
              LET summary == Get(decision.costImpact)
              IN /\ summary.resourceId = request.resourceId
                 /\ \E m \in OutcomesOf(c, "getCostMetrics") :
                      Delivered(m)
                      /\ summary.currentCost = Get(m.value.data).totalCost
                 /\ \E f \in OutcomesOf(c, "getForecast") :
                      Delivered(f)
                      /\ summary.forecast = Get(f.value.data).projectedCost
                 /\ summary.budgetStatus =
                      (IF 2 * summary.forecast > 3 * summary.currentCost
                       THEN "exceeded"
                       ELSE IF 5 * summary.forecast > 6 * summary.currentCost
                       THEN "warning" ELSE "within")

\* A denying decision with two reasons and one policy, and a cost summary
C26_Witness ==
  \E c \in Evaluations :
    /\ HasDecision(c)
    /\ DecisionOf(c).policyResults.reasons = <<"Delete forbidden", "No override">>
    /\ DecisionOf(c).policyResults.policies = <<"policy-2">>
    /\ DecisionOf(c).costImpact =
         Some([resourceId |-> "res-2", currentCost |-> 100, forecast |-> 160,
               budgetStatus |-> "exceeded"])

----------------------------------------------------------------------------
(* Summaries that leave the program *)

\* The summaries printed by the finops command
PrintedSummaries ==
  {Get(frames[c].result).value :
     c \in {m \in Calls : /\ frames[m].op = "main"
                          /\ frames[m].pc = "done"
                          /\ Get(frames[m].result).kind = "printed"}}

\* exceeded if forecast > 1.5 * currentCost, else warning if forecast >
\* 1.2 * currentCost, else within
BudgetRule(summary) ==
  IF 2 * summary.forecast > 3 * summary.currentCost THEN "exceeded"
  ELSE IF 5 * summary.forecast > 6 * summary.currentCost THEN "warning"
  ELSE "within"

(* C27: every FinOpsSummary the program puts out obeys the budget rule on  *)
(* its own fields: its budgetStatus is what the rule gives for its         *)
(* currentCost and forecast, for the summaries of getFinOpsSummary and for *)
(* the summary the finops command prints.                                  *)
C27_EverySummaryObeysBudgetRule ==
  \A summary \in {p[2] : p \in ProducedSummaries} \cup PrintedSummaries :
    summary.budgetStatus = BudgetRule(summary)

----------------------------------------------------------------------------
(* Reading the history of a service *)

Recordings == {c \in Calls : frames[c].op = "recordDecision"}
MetricsQueries == {c \in Calls : frames[c].op = "getGovernanceMetrics"}

\* The service has returned an envelope
HasAnswer(c) ==
  /\ frames[c].pc = "done"
  /\ Get(frames[c].result).kind = "response"
AnswerOf(c) == Get(frames[c].result).value

(* C28: recordDecision calls publishEvent only after validate has returned *)
(* success = true with valid = true for that decision; when validate       *)
(* returns anything else, recordDecision returns an envelope with          *)
(* success = false, raises nothing and does not call publishEvent; and     *)
(* when validation passes, what publishEvent returns is what               *)
(* recordDecision returns.                                                 *)
C28_RecordDecisionValidatesFirst ==
  \A c \in Recordings :
    LET trace == frames[c].trace
        decision == Get(frames[c].input)
    IN /\ \A i \in CallsOf(c, "publishEvent") :
            /\ trace[i].arg = decision
            /\ \E j \in ReturnsOf(c, "validate") :
                 /\ j < i
                 /\ trace[j].outcome.kind = "resolve"
                 /\ ~ValidationRefused(trace[j].outcome)
            /\ \E j \in CallsOf(c, "validate") :
                 j < i /\ trace[j].arg.data = decision
       /\ \A o \in OutcomesOf(c, "validate") :
            ValidationRefused(o) =>
              /\ HasAnswer(c)
              /\ ~AnswerOf(c).success
              /\ CallsOf(c, "publishEvent") = {}
       /\ \A o \in OutcomesOf(c, "publishEvent") :
            o.kind = "resolve" => HasAnswer(c) /\ AnswerOf(c) = o.value

\* A decision the registry finds invalid: a failure envelope that lists the
\* validation errors, and nothing published
C28_Witness ==
  \E c \in Recordings :
    /\ HasAnswer(c)
    /\ AnswerOf(c) =
         Response(FALSE, None,
                  "Schema validation failed: bad outcome, unknown principal")
    /\ CallsOf(c, "publishEvent") = {}

(* C29: getGovernanceMetrics calls getCostMetrics first, and query only    *)
(* when getCostMetrics has returned success = true with data; it returns   *)
(* success = true, with the cost metrics and the analytics data, only when *)
(* both calls returned success = true with data; when one of them returns  *)
(* anything else it returns success = false with an error that names that  *)
(* call, and raises nothing.                                               *)
C29_MetricsNeedCostThenAnalytics ==
  \A c \in MetricsQueries :
    LET trace == frames[c].trace
        cost == OutcomesOf(c, "getCostMetrics")
        analytics == OutcomesOf(c, "query")
    IN /\ trace[1].kind = "call" /\ trace[1].op = "getCostMetrics"
       /\ \A i \in CallsOf(c, "query") :
            \E j \in ReturnsOf(c, "getCostMetrics") :
              j < i /\ Delivered(trace[j].outcome)
       /\ (HasAnswer(c) /\ AnswerOf(c).success) =>
            \E m \in cost : \E a \in analytics :
              /\ Delivered(m) /\ Delivered(a)
              /\ AnswerOf(c).data =
                   Some([costMetrics |-> Get(m.value.data),
                         analyticsData |-> Get(a.value.data)])
       /\ \A m \in cost :
            FailureEnvelope(m) =>
              /\ HasAnswer(c) /\ ~AnswerOf(c).success
              /\ AnswerOf(c).error =
                   "Failed to fetch cost metrics: "
                     \o (IF m.value.error = Undefined THEN "undefined"
                         ELSE m.value.error)
              /\ CallsOf(c, "query") = {}
       /\ \A a \in analytics :
            FailureEnvelope(a) =>
              /\ HasAnswer(c) /\ ~AnswerOf(c).success
              /\ AnswerOf(c).error =
                   "Failed to fetch analytics: "
                     \o (IF a.value.error = Undefined THEN "undefined"
                         ELSE a.value.error)
       /\ \A m \in cost : \A a \in analytics :
            (Delivered(m) /\ Delivered(a)) =>
              HasAnswer(c) /\ AnswerOf(c).success

\* The cost metrics arrive and the analytics query reports a failure
C29_Witness ==
  \E c \in MetricsQueries :
    /\ \E m \in OutcomesOf(c, "getCostMetrics") : Delivered(m)
    /\ HasAnswer(c)
    /\ AnswerOf(c) =
         Response(FALSE, None, "Failed to fetch analytics: analytics down")

----------------------------------------------------------------------------
(* Side effects of a failed evaluation *)

\* The verdicts the policy adapter delivered to frame c
Verdicts(c) == {p.allowed : p \in OwnPolicy(c)}

(* C30: the side effects of evaluateGovernance are not undone when it      *)
(* fails.  When it fails at audit emission, the analytics event of the     *)
(* request has been sent, exactly once; and whenever an analytics event or *)
(* a dashboard event exists for a request, policy evaluation had succeeded *)
(* for it before, and the event's allowed (its outcome) is that verdict.   *)
C30_SideEffectsAreNotRolledBack ==
  \A c \in Evaluations :
    LET trace == frames[c].trace
        passed(i) ==
          \E j \in ReturnsOf(c, "evaluatePolicy") :
            j < i /\ Delivered(trace[j].outcome)
    IN /\ (HasError(c) /\ AuditFailed(c)) =>
            /\ Cardinality(CallsOf(c, "track")) = 1
            /\ \A i \in CallsOf(c, "track") :
                 trace[i].arg.properties.requestId =
                   Get(frames[c].input).requestId
       /\ \A i \in CallsOf(c, "track") :
            /\ passed(i)
            /\ Verdicts(c) = {trace[i].arg.properties.allowed}
       /\ \A i \in CallsOf(c, "publishEvent") :
            /\ passed(i)
            /\ Verdicts(c) = {trace[i].arg.details.outcome = "allowed"}
            /\ trace[i].arg.details.outcome \in {"allowed", "denied"}

\* An evaluation that failed when the dashboard call rejected: its analytics
\* event and its dashboard event, both for a denial, are out
C30_Witness ==
  \E c \in Evaluations :
    /\ HasError(c)
    /\ \E o \in OutcomesOf(c, "publishEvent") : o.kind = "reject"
    /\ \E i \in CallsOf(c, "track") : ~frames[c].trace[i].arg.properties.allowed
    /\ \E i \in CallsOf(c, "publishEvent") :
         frames[c].trace[i].arg.details.outcome = "denied"

====
